---- MODULE Spec2Model ----
(***************************************************************************)
(* The Mongo peer-group reconciler of worker/peergrouper/desired.go.       *)
(*                                                                         *)
(* A tick builds a peerGroupInfo snapshot from the known controller        *)
(* machines, the replica-set members and their statuses                    *)
(* (newPeerGroupInfo), and computes the desired peer group from it         *)
(* (desiredPeerGroup).                                                     *)
(*                                                                         *)
(* Representation.                                                         *)
(*   - Go maps are functions; a key that is absent from a map is absent    *)
(*     from the function's DOMAIN.                                         *)
(*   - Go slices are sequences.                                            *)
(*   - A Go pointer to a number is Nil (<<>>) or <<v>>.                    *)
(*   - Machine ids are the strings "0", "1", ...; they are modelled by     *)
(*     the naturals 0, 1, ... whose order is the order sort.Strings gives  *)
(*     to single-digit ids.                                                *)
(***************************************************************************)
EXTENDS Integers, Sequences, FiniteSets, TLC

\* Number of machine ids the controller may know.
MaxMachines == 3
\* Number of replica-set members, besides one per machine id, in the
\* initial member list.
MaxOthers == 1
\* Number of ticks of one run.
MaxTicks == 2
\* The number of requests the API server is sent.
MaxRequests == 2

MachineIds == 0 .. (MaxMachines - 1)
\* A machine id that no machine tracker ever has.
GoneMachine == MaxMachines

jujuMachineKey == "juju-machine-id"

PrimaryState == "PRIMARY"
SecondaryState == "SECONDARY"
StartupState == "STARTUP"

\* The address every member of the initial replica set has, and an address
\* a machine may select instead.
CurAddr == "10.0.0.1:37017"
NewAddr == "10.0.0.2:37017"

Nil == <<>>
Ptr(v) == <<v>>

NoTags == [k \in {} |-> 0]
MachineTag(id) == [k \in {jujuMachineKey} |-> id]
EmptyMap == [k \in {} |-> 0]

Put(f, k, v) == [x \in (DOMAIN f) \cup {k} |-> IF x = k THEN v ELSE f[x]]

Max(S) == CHOOSE x \in S : \A y \in S : y <= x
Min(S) == CHOOSE x \in S : \A y \in S : x <= y

RECURSIVE SortedSeq(_)
SortedSeq(S) ==
    IF S = {} THEN <<>> ELSE <<Min(S)>> \o SortedSeq(S \ {Min(S)})

Range(s) == {s[i] : i \in 1 .. Len(s)}

RECURSIVE SelectSeq2(_, _)
\* The elements of s, in order, that are in the set S.
SelectSeq2(s, S) ==
    IF s = <<>> THEN <<>>
    ELSE (IF Head(s) \in S THEN <<Head(s)>> ELSE <<>>) \o SelectSeq2(Tail(s), S)

----------------------------------------------------------------------------
\* replicaset.Member and replicaset.MemberStatus values.

Member(id, addr, tags, votes, priority) ==
    [Id |-> id, Address |-> addr, Tags |-> tags, Votes |-> votes, Priority |-> priority]

MemberStatus(id, state, healthy) ==
    [Id |-> id, State |-> state, Healthy |-> healthy]

\* The zero value a Go map read gives for an absent key.
ZeroStatus == MemberStatus(0, StartupState, FALSE)

\* isVotingMember taking absent votes for no vote, as getLogMessage does
\* (desired.go:122).
isVotingMember_NilVotesNonVoting(m) ==
    m.Votes # Nil /\ m.Votes[1] > 0

\* isVotingMember, desired.go:278
isVotingMember(m) ==
    m.Votes = Nil \/ m.Votes[1] > 0

\* isReady without the health check.
isReady_IgnoresHealth(status) ==
    status.State = PrimaryState \/ status.State = SecondaryState

\* isReady, desired.go:435
isReady(status) ==
    status.Healthy /\ (status.State = PrimaryState \/ status.State = SecondaryState)

StatusOf(info, id) ==
    IF id \in DOMAIN info.statuses THEN info.statuses[id] ELSE ZeroStatus

\* isPrimaryMember taking no machine for the primary.
isPrimaryMember_Never(info, id) ==
    FALSE

\* isPrimaryMember, desired.go:283
isPrimaryMember(info, id) ==
    StatusOf(info, id).State = PrimaryState

\* setMemberVoting leaving the priority as it is.
setMemberVoting_VotesOnly(member, voting) ==
    IF voting
    THEN [member EXCEPT !.Votes = Nil]
    ELSE [member EXCEPT !.Votes = Ptr(0)]

\* setMemberVoting, desired.go:347
setMemberVoting(member, voting) ==
    IF voting
    THEN [member EXCEPT !.Votes = Nil, !.Priority = Nil]
    ELSE [member EXCEPT !.Votes = Ptr(0), !.Priority = Ptr(0)]

----------------------------------------------------------------------------
\* newPeerGroupInfo, desired.go:54

\* The status the inner loop of newPeerGroupInfo leaves for member m: the
\* last status of the list with m's member id, if there is one.
MatchingStatuses(statuses, m) ==
    {i \in 1 .. Len(statuses) : statuses[i].Id = m.Id}

\* infoStep recognising a member by its tag alone, without looking the
\* machine up.
infoStep_AnyTagRecognised(info, machines, statuses, m) ==
    LET hasTag == jujuMachineKey \in DOMAIN m.Tags
        id == m.Tags[jujuMachineKey]
        match == MatchingStatuses(statuses, m)
    IN  [info EXCEPT
            !.recognised = IF hasTag THEN Put(@, id, m) ELSE @,
            !.statuses = IF hasTag /\ match # {}
                         THEN Put(@, id, statuses[Max(match)]) ELSE @,
            !.extra = IF hasTag THEN @ ELSE Append(@, m),
            !.maxMemberId = IF m.Id > @ THEN m.Id ELSE @]

\* infoStep tracking the highest member id over the recognised members only.
infoStep_MaxOfRecognised(info, machines, statuses, m) ==
    LET hasTag == jujuMachineKey \in DOMAIN m.Tags
        id == m.Tags[jujuMachineKey]
        found == hasTag /\ id \in DOMAIN machines
        match == MatchingStatuses(statuses, m)
    IN  [info EXCEPT
            !.recognised = IF found THEN Put(@, id, m) ELSE @,
            !.statuses = IF hasTag /\ match # {}
                         THEN Put(@, id, statuses[Max(match)]) ELSE @,
            !.extra = IF found THEN @ ELSE Append(@, m),
            !.maxMemberId = IF found /\ m.Id > @ THEN m.Id ELSE @]

\* One iteration of the loop over the input members (desired.go:78-100).
infoStep(info, machines, statuses, m) ==
    LET hasTag == jujuMachineKey \in DOMAIN m.Tags
        id == m.Tags[jujuMachineKey]
        found == hasTag /\ id \in DOMAIN machines
        match == MatchingStatuses(statuses, m)
    IN  [info EXCEPT
            !.recognised = IF found THEN Put(@, id, m) ELSE @,
            !.statuses = IF hasTag /\ match # {}
                         THEN Put(@, id, statuses[Max(match)]) ELSE @,
            !.extra = IF found THEN @ ELSE Append(@, m),
            !.maxMemberId = IF m.Id > @ THEN m.Id ELSE @]

RECURSIVE infoLoop(_, _, _, _)
infoLoop(info, machines, statuses, members) ==
    IF members = <<>> THEN info
    ELSE infoLoop(infoStep(info, machines, statuses, Head(members)),
                  machines, statuses, Tail(members))

\* The mongo port and the HA space the worker passes to newPeerGroupInfo;
\* desiredPeerGroup hands them to SelectMongoAddress (desired.go:295).
MongoPort == 37017
HaSpace == ""

\* The snapshot newPeerGroupInfo returns for a non-empty member list.
newPeerGroupInfo(machines, statuses, members) ==
    infoLoop([machines |-> machines,
              statuses |-> EmptyMap,
              recognised |-> EmptyMap,
              extra |-> <<>>,
              maxMemberId |-> -1,
              mongoPort |-> MongoPort,
              haSpace |-> HaSpace],
             machines, statuses, members)

----------------------------------------------------------------------------
\* desiredPeerGroup and the methods of peerGroupChanges, desired.go:132-433

\* The peerGroupChanges value desiredPeerGroup starts from (desired.go:158).
newPeerGroupChanges ==
    [isChanged |-> FALSE,
     toRemoveVote |-> <<>>,
     toAddVote |-> <<>>,
     toKeepVoting |-> <<>>,
     toKeepNonVoting |-> <<>>,
     toKeepCreateNonVotingMember |-> <<>>,
     machineVoting |-> EmptyMap,
     addrs |-> EmptyMap,
     members |-> EmptyMap]

\* checkExtraMembers, desired.go:266: the extra members that make it fail.
\* votingExtras finding no voter in the extra list.
votingExtras_None(extra) ==
    {}

votingExtras(extra) ==
    {i \in 1 .. Len(extra) : isVotingMember(extra[i])}

\* checkExtraMembers without the signal that the extra list is not empty
\* (desired.go:272-274).
checkExtraMembers_NoSignal(p, extra) ==
    p

checkExtraMembers(p, extra) ==
    [p EXCEPT !.isChanged = IF Len(extra) > 0 THEN TRUE ELSE @]

\* failingMachines with every error of SelectMongoAddress dropped.
failingMachines_ErrorsDropped(info) ==
    {id \in DOMAIN info.machines : FALSE}

\* getMongoAddresses, desired.go:291: the machines whose SelectMongoAddress
\* fails, and the addresses recorded when none does.
failingMachines(info) ==
    {id \in DOMAIN info.machines : info.machines[id].addrErr}

getMongoAddresses(p, info) ==
    [p EXCEPT !.addrs = [id \in DOMAIN info.machines |-> info.machines[id].addr]]

\* initNewReplicaSet storing the address of one variable shared by every
\* iteration, which the comment of desired.go:135-136 warns about: every
\* entry is the member the loop read last (here that of the highest id).
initNewReplicaSet_SharedVariable(info) ==
    [id \in DOMAIN info.recognised |-> info.recognised[Max(DOMAIN info.recognised)]]

\* initNewReplicaSet, desired.go:132
initNewReplicaSet(info) ==
    [id \in DOMAIN info.recognised |-> info.recognised[id]]

\* classify adding the vote of every machine that has a status, ready or not.
classify_IgnoresReady(p, info, id) ==
    LET hasMember == id \in DOMAIN p.members
        isVoting == hasMember /\ isVotingMember(p.members[id])
        wantsVote == info.machines[id].wantsVote
    IN  CASE wantsVote /\ isVoting ->
                [p EXCEPT !.toKeepVoting = Append(@, id)]
          [] wantsVote /\ ~isVoting ->
                IF id \in DOMAIN info.statuses
                THEN [p EXCEPT !.toAddVote = Append(@, id)]
                ELSE IF hasMember
                THEN [p EXCEPT !.toKeepNonVoting = Append(@, id)]
                ELSE [p EXCEPT !.toKeepCreateNonVotingMember = Append(@, id)]
          [] ~wantsVote /\ isVoting ->
                [p EXCEPT !.toRemoveVote = Append(@, id)]
          [] ~wantsVote /\ ~isVoting ->
                [p EXCEPT !.toKeepNonVoting = Append(@, id)]

\* classify keeping the vote of a voting machine that does not want it
\* (toKeepVoting in place of toRemoveVote, desired.go:336-338).
classify_KeepsUnwantedVoter(p, info, id) ==
    LET hasMember == id \in DOMAIN p.members
        isVoting == hasMember /\ isVotingMember(p.members[id])
        wantsVote == info.machines[id].wantsVote
    IN  CASE wantsVote /\ isVoting ->
                [p EXCEPT !.toKeepVoting = Append(@, id)]
          [] wantsVote /\ ~isVoting ->
                IF id \in DOMAIN info.statuses /\ isReady(info.statuses[id])
                THEN [p EXCEPT !.toAddVote = Append(@, id)]
                ELSE IF hasMember
                THEN [p EXCEPT !.toKeepNonVoting = Append(@, id)]
                ELSE [p EXCEPT !.toKeepCreateNonVotingMember = Append(@, id)]
          [] ~wantsVote /\ isVoting ->
                [p EXCEPT !.toKeepVoting = Append(@, id)]
          [] ~wantsVote /\ ~isVoting ->
                [p EXCEPT !.toKeepNonVoting = Append(@, id)]

\* The body of the loop of possiblePeerGroupChanges for machine id
\* (desired.go:317-342).
classify(p, info, id) ==
    LET hasMember == id \in DOMAIN p.members
        isVoting == hasMember /\ isVotingMember(p.members[id])
        wantsVote == info.machines[id].wantsVote
    IN  CASE wantsVote /\ isVoting ->
                [p EXCEPT !.toKeepVoting = Append(@, id)]
          [] wantsVote /\ ~isVoting ->
                IF id \in DOMAIN info.statuses /\ isReady(info.statuses[id])
                THEN [p EXCEPT !.toAddVote = Append(@, id)]
                ELSE IF hasMember
                THEN [p EXCEPT !.toKeepNonVoting = Append(@, id)]
                ELSE [p EXCEPT !.toKeepCreateNonVotingMember = Append(@, id)]
          [] ~wantsVote /\ isVoting ->
                [p EXCEPT !.toRemoveVote = Append(@, id)]
          [] ~wantsVote /\ ~isVoting ->
                [p EXCEPT !.toKeepNonVoting = Append(@, id)]

RECURSIVE classifyAll(_, _, _)
classifyAll(p, info, machineIds) ==
    IF machineIds = <<>> THEN p
    ELSE classifyAll(classify(p, info, Head(machineIds)), info, Tail(machineIds))

\* possiblePeerGroupChanges, desired.go:308
possiblePeerGroupChanges(p, info) ==
    classifyAll(p, info, SortedSeq(DOMAIN info.machines))

\* firstNonPrimary taking the first id of toKeepVoting, primary or not.
firstNonPrimary_Any(info, toKeepVoting) ==
    IF toKeepVoting = <<>> THEN 0 ELSE 1

\* The index of the first id of toKeepVoting that is not the primary, or 0
\* (the loop of desired.go:248-258).
firstNonPrimary(info, toKeepVoting) ==
    LET S == {i \in 1 .. Len(toKeepVoting) : ~isPrimaryMember(info, toKeepVoting[i])}
    IN  IF S = {} THEN 0 ELSE Min(S)

RemoveAt(s, i) ==
    SubSeq(s, 1, i - 1) \o SubSeq(s, i + 1, Len(s))

\* reviewPeerGroupChanges without the move of a kept voter to toRemoveVote
\* (without desired.go:247-259).
reviewPeerGroupChanges_NoMove(p, info) ==
    LET currVoters == Cardinality({id \in DOMAIN p.members : isVotingMember(p.members[id])})
        keptVoters == currVoters - Len(p.toRemoveVote)
    IN  IF (keptVoters + Len(p.toAddVote)) % 2 = 1 THEN p
        ELSE IF Len(p.toAddVote) > 0
        THEN [p EXCEPT !.toAddVote = SubSeq(@, 1, Len(@) - 1)]
        ELSE IF keptVoters = 0
        THEN [p EXCEPT !.toRemoveVote =
                 SelectSeq2(@, {id \in Range(@) : ~isPrimaryMember(info, id)})]
        ELSE p

\* reviewPeerGroupChanges leaving toAddVote as it is when the number of
\* voters is even (without desired.go:228-232).
reviewPeerGroupChanges_NoTrim(p, info) ==
    LET currVoters == Cardinality({id \in DOMAIN p.members : isVotingMember(p.members[id])})
        keptVoters == currVoters - Len(p.toRemoveVote)
        i == firstNonPrimary(info, p.toKeepVoting)
    IN  IF (keptVoters + Len(p.toAddVote)) % 2 = 1 THEN p
        ELSE IF Len(p.toAddVote) > 0 THEN p
        ELSE IF keptVoters = 0
        THEN [p EXCEPT !.toRemoveVote =
                 SelectSeq2(@, {id \in Range(@) : ~isPrimaryMember(info, id)})]
        ELSE IF i = 0 THEN p
        ELSE [p EXCEPT !.toRemoveVote = Append(@, p.toKeepVoting[i]),
                       !.toKeepVoting = RemoveAt(@, i)]

\* reviewPeerGroupChanges without the early return on an odd number of
\* voters (desired.go:223-227).
reviewPeerGroupChanges_NoOddReturn(p, info) ==
    LET currVoters == Cardinality({id \in DOMAIN p.members : isVotingMember(p.members[id])})
        keptVoters == currVoters - Len(p.toRemoveVote)
        i == firstNonPrimary(info, p.toKeepVoting)
    IN  IF Len(p.toAddVote) > 0
        THEN [p EXCEPT !.toAddVote = SubSeq(@, 1, Len(@) - 1)]
        ELSE IF keptVoters = 0
        THEN [p EXCEPT !.toRemoveVote =
                 SelectSeq2(@, {id \in Range(@) : ~isPrimaryMember(info, id)})]
        ELSE IF i = 0 THEN p
        ELSE [p EXCEPT !.toRemoveVote = Append(@, p.toKeepVoting[i]),
                       !.toKeepVoting = RemoveAt(@, i)]

\* reviewPeerGroupChanges trimming the first machine of toAddVote instead of
\* the last.
reviewPeerGroupChanges_TrimsFirst(p, info) ==
    LET currVoters == Cardinality({id \in DOMAIN p.members : isVotingMember(p.members[id])})
        keptVoters == currVoters - Len(p.toRemoveVote)
        i == firstNonPrimary(info, p.toKeepVoting)
    IN  IF (keptVoters + Len(p.toAddVote)) % 2 = 1 THEN p
        ELSE IF Len(p.toAddVote) > 0
        THEN [p EXCEPT !.toAddVote = Tail(@)]
        ELSE IF keptVoters = 0
        THEN [p EXCEPT !.toRemoveVote =
                 SelectSeq2(@, {id \in Range(@) : ~isPrimaryMember(info, id)})]
        ELSE IF i = 0 THEN p
        ELSE [p EXCEPT !.toRemoveVote = Append(@, p.toKeepVoting[i]),
                       !.toKeepVoting = RemoveAt(@, i)]

\* reviewPeerGroupChanges without the erasure from toKeepVoting of the
\* machine it appends to toRemoveVote.
reviewPeerGroupChanges_KeepsMoved(p, info) ==
    LET currVoters == Cardinality({id \in DOMAIN p.members : isVotingMember(p.members[id])})
        keptVoters == currVoters - Len(p.toRemoveVote)
        i == firstNonPrimary(info, p.toKeepVoting)
    IN  IF (keptVoters + Len(p.toAddVote)) % 2 = 1 THEN p
        ELSE IF Len(p.toAddVote) > 0
        THEN [p EXCEPT !.toAddVote = SubSeq(@, 1, Len(@) - 1)]
        ELSE IF keptVoters = 0
        THEN [p EXCEPT !.toRemoveVote =
                 SelectSeq2(@, {id \in Range(@) : ~isPrimaryMember(info, id)})]
        ELSE IF i = 0 THEN p
        ELSE [p EXCEPT !.toRemoveVote = Append(@, p.toKeepVoting[i])]

\* reviewPeerGroupChanges, desired.go:214
reviewPeerGroupChanges(p, info) ==
    LET currVoters == Cardinality({id \in DOMAIN p.members : isVotingMember(p.members[id])})
        keptVoters == currVoters - Len(p.toRemoveVote)
        i == firstNonPrimary(info, p.toKeepVoting)
    IN  IF (keptVoters + Len(p.toAddVote)) % 2 = 1 THEN p
        ELSE IF Len(p.toAddVote) > 0
        THEN [p EXCEPT !.toAddVote = SubSeq(@, 1, Len(@) - 1)]
        ELSE IF keptVoters = 0
        THEN [p EXCEPT !.toRemoveVote =
                 SelectSeq2(@, {id \in Range(@) : ~isPrimaryMember(info, id)})]
        ELSE IF i = 0 THEN p
        ELSE [p EXCEPT !.toRemoveVote = Append(@, p.toKeepVoting[i]),
                       !.toKeepVoting = RemoveAt(@, i)]

\* The member createNonVotingMember makes for machine id (desired.go:387-393).
newNonVotingMember(id, memberId) ==
    setMemberVoting(Member(memberId, "", MachineTag(id), Nil, Nil), FALSE)

\* createEach making no member.
createEach_CreatesNone(st, ids, skip) ==
    st

RECURSIVE createEach_NoIncrement(_, _, _)
\* createEach giving maxId + 1 without storing the increment.
createEach_NoIncrement(st, ids, skip) ==
    IF ids = <<>> THEN st
    ELSE LET id == Head(ids)
         IN  IF skip /\ id \in DOMAIN st.p.members
             THEN createEach_NoIncrement(st, Tail(ids), skip)
             ELSE createEach_NoIncrement(
                    [p |-> [st.p EXCEPT !.members =
                               Put(@, id, newNonVotingMember(id, st.maxId + 1))],
                     maxId |-> st.maxId],
                    Tail(ids), skip)

RECURSIVE createEach(_, _, _)
\* One loop of createNonVotingMember over ids; st is [p, maxId].  With
\* skip, an id that has a member is passed over (desired.go:397).
createEach(st, ids, skip) ==
    IF ids = <<>> THEN st
    ELSE LET id == Head(ids)
         IN  IF skip /\ id \in DOMAIN st.p.members
             THEN createEach(st, Tail(ids), skip)
             ELSE createEach(
                    [p |-> [st.p EXCEPT !.members =
                               Put(@, id, newNonVotingMember(id, st.maxId + 1))],
                     maxId |-> st.maxId + 1],
                    Tail(ids), skip)

\* createNonVotingMember without its second loop (desired.go:396-410): no
\* member is made for a member-less machine of toKeepNonVoting.
createNonVotingMember_FirstLoopOnly(p, maxId) ==
    createEach([p |-> p, maxId |-> maxId], p.toKeepCreateNonVotingMember, FALSE)

\* createNonVotingMember running its two loops in the other order: the
\* member-less machines of toKeepNonVoting first.
createNonVotingMember_NonVotingFirst(p, maxId) ==
    createEach(createEach([p |-> p, maxId |-> maxId],
                          p.toKeepNonVoting, TRUE),
               p.toKeepCreateNonVotingMember, FALSE)

\* createNonVotingMember, desired.go:381: the changes and the new value of
\* the maxMemberId it is given a pointer to.
createNonVotingMember(p, maxId) ==
    createEach(createEach([p |-> p, maxId |-> maxId],
                          p.toKeepCreateNonVotingMember, FALSE),
               p.toKeepNonVoting, TRUE)

\* getMachinesVoting, desired.go:204
getMachinesVoting(p) ==
    [p EXCEPT !.machineVoting =
        [id \in DOMAIN p.members |-> isVotingMember(p.members[id])]]

RECURSIVE setVoting_MembersOnly(_, _, _)
\* setVoting without the record in machineVoting (desired.go:365).
setVoting_MembersOnly(p, memberIds, voting) ==
    IF memberIds = <<>> THEN p
    ELSE LET id == Head(memberIds)
         IN  setVoting_MembersOnly(
                 [p EXCEPT !.members = [@ EXCEPT ![id] = setMemberVoting(@, voting)]],
                 Tail(memberIds), voting)

RECURSIVE setVoting(_, _, _)
\* The closure setVoting of adjustVotes (desired.go:362).
setVoting(p, memberIds, voting) ==
    IF memberIds = <<>> THEN p
    ELSE LET id == Head(memberIds)
         IN  setVoting([p EXCEPT
                          !.members = [@ EXCEPT ![id] = setMemberVoting(@, voting)],
                          !.machineVoting = Put(@, id, voting)],
                       Tail(memberIds), voting)

\* adjustVotes dereferences p.members[id] for these ids; a nil member is a
\* nil-pointer panic.
nilMemberIds(p) ==
    (Range(p.toAddVote) \cup Range(p.toRemoveVote)
        \cup Range(p.toKeepCreateNonVotingMember)) \ DOMAIN p.members

\* adjustVotes, desired.go:360
adjustVotes(p) ==
    LET q == [p EXCEPT !.isChanged =
                 IF Len(p.toAddVote) > 0 \/ Len(p.toRemoveVote) > 0
                    \/ Len(p.toKeepCreateNonVotingMember) > 0
                 THEN TRUE ELSE @]
    IN  setVoting(setVoting(setVoting(q, q.toAddVote, TRUE),
                            q.toRemoveVote, FALSE),
                  q.toKeepCreateNonVotingMember, FALSE)

\* staleAddrs without the skip of an empty selected address
\* (desired.go:419-421).
staleAddrs_EmptyToo(p) ==
    {id \in DOMAIN p.addrs :
        /\ id \in DOMAIN p.members
        /\ p.addrs[id] # p.members[id].Address}

\* The machines whose member address updateAddresses overwrites.
staleAddrs(p) ==
    {id \in DOMAIN p.addrs :
        /\ p.addrs[id] # ""
        /\ id \in DOMAIN p.members
        /\ p.addrs[id] # p.members[id].Address}

\* updateAddresses, desired.go:416
updateAddresses(p) ==
    [p EXCEPT
        !.members = [id \in DOMAIN @ |->
                        IF id \in staleAddrs(p)
                        THEN [@[id] EXCEPT !.Address = p.addrs[id]] ELSE @[id]],
        !.isChanged = IF staleAddrs(p) # {} THEN TRUE ELSE @]

\* desiredPeerGroup, desired.go:155, up to the point where the votes are
\* adjusted: the changes after each call it makes.
afterAddresses(info) ==
    getMongoAddresses(checkExtraMembers(newPeerGroupChanges, info.extra), info)

afterClassify(info) ==
    possiblePeerGroupChanges(
        [afterAddresses(info) EXCEPT !.members = initNewReplicaSet(info)], info)

afterReview(info) ==
    reviewPeerGroupChanges(afterClassify(info), info)

afterCreate(info) ==
    createNonVotingMember(afterReview(info), info.maxMemberId)

afterVoting(info) ==
    getMachinesVoting(afterCreate(info).p)

\* The changes desiredPeerGroup ends with when no call fails.
finalChanges(info) ==
    updateAddresses(adjustVotes(afterVoting(info)))

\* What desiredPeerGroup returns: the members map and the voting map, each
\* Nil or a pointer to the map, and the error ("" for none).
Return(members, voting, err) ==
    [members |-> members, voting |-> voting, err |-> err]

\* An error is <<>> (nil) or <<kind, what it names>>.
NoErr == <<>>
Err(kind, what) == <<kind, what>>

ErrExtraVotingMember == "voting non-machine member found in peer group"
ErrSelectMongoAddress == "cannot select mongo address"
ErrEmptyMemberSet == "current member set is empty"
PanicNilMember == "panic: nil member"

\* desiredPeerGroupReturn returning the members map whether or not the
\* changes are flagged.
desiredPeerGroupReturn_AlwaysMembers(p) ==
    Return(Ptr(p.members), Ptr(p.machineVoting), NoErr)

\* The return statements that end desiredPeerGroup (desired.go:199-202).
desiredPeerGroupReturn(p) ==
    IF ~p.isChanged
    THEN Return(Nil, Ptr(p.machineVoting), NoErr)
    ELSE Return(Ptr(p.members), Ptr(p.machineVoting), NoErr)

----------------------------------------------------------------------------
\* The state: the machine trackers, the replica set, one worker that runs
\* ticks, and the API server with the requests it is sent.

VARIABLES
    machines,     \* machine id -> machine tracker (wantsVote, selected address)
    members,      \* the replica set's member list
    statuses,     \* the replica set's member statuses
    pc,           \* where the tick is: "idle", "info", "done"
    info,         \* the peerGroupInfo of the tick
    built,        \* the peerGroupInfo as newPeerGroupInfo returned it
    classified,   \* peerGroupChanges after possiblePeerGroupChanges
    reviewed,     \* peerGroupChanges after reviewPeerGroupChanges
    changes,      \* peerGroupChanges when desiredPeerGroup returns
    ret,          \* what the tick returned
    prev,         \* what the tick before returned, and the member ids it read
    ticks,        \* number of ticks finished
    usedIds,      \* every member id the replica set has held
    tomb,         \* the API server's tomb: "alive", "dying", "dead"
    wg,           \* the counter of the API server's wait group
    lis,          \* the API server's listener: "open", "closed"
    loopPc,       \* where the goroutine that runs Server.loop is
    servePc,      \* where the goroutine that runs httpSrv.Serve is
    requests,     \* request -> where its trackRequests handler is
    lateRequests, \* the requests accepted after the tomb was killed
    disposed,     \* the db loggers are disposed and the log sink is closed
    stopPc,       \* where the caller of Server.Stop is
    haPc,         \* where the call of HighAvailabilityAPI.EnableHA is
    haSpecs,      \* the controller specs the call was given
    haPerm,       \* what HasPermission answered the call
    haState,      \* what the call has read from the state so far
    haCalls,      \* the calls of st.Machine and st.EnableHA it has made
    haRet         \* what the call returned

world == <<machines, members, statuses>>

\* The state of the peergrouper tick and the state of the API server.
tick == <<machines, members, statuses, pc, info, built, classified, reviewed,
          changes, ret, prev, ticks, usedIds>>

server == <<tomb, wg, lis, loopPc, servePc, requests, lateRequests, disposed, stopPc>>

ha == <<haPc, haSpecs, haPerm, haState, haCalls, haRet>>

\* A highavailability facade that has not been called.
NoHAState == [read |-> FALSE]
NoHAReturn == [results |-> <<>>, err |-> "no return yet"]

HAInit ==
    /\ haPc = "idle"
    /\ haSpecs = <<>>
    /\ haPerm = "not asked"
    /\ haState = NoHAState
    /\ haCalls = <<>>
    /\ haRet = NoHAReturn

vars == <<tick, server, ha>>

Requests == 1 .. MaxRequests

\* The API server as NewServer returns it (apiserver.go:378-382): its tomb
\* alive, its listener open, the goroutine that runs loop not yet started.
ServerInit ==
    /\ tomb = "alive"
    /\ wg = 0
    /\ lis = "open"
    /\ loopPc = "start"
    /\ servePc = "idle"
    /\ requests = [r \in Requests |-> "idle"]
    /\ lateRequests = {}
    /\ disposed = FALSE
    /\ stopPc = "idle"

NoInfo == newPeerGroupInfo(EmptyMap, <<>>, <<>>)
NoReturn == Return(Nil, Nil, Err("no tick yet", 0))

\* The record of a finished tick.
Finished(r, ms) == [ret |-> r, ids |-> {ms[i].Id : i \in 1 .. Len(ms)}]

\* A machine tracker: WantsVote() and the result of SelectMongoAddress().
Machine(wantsVote, addr, addrErr) ==
    [wantsVote |-> wantsVote, addr |-> addr, addrErr |-> addrErr]

----------------------------------------------------------------------------
\* The initial states: a replica set and the machines the controller knows.
\* Each machine id is in one of the situations of SlotKinds; the member of
\* machine i has member id i + 1; the other members of the replica set come
\* first in the member list and have the highest member ids.

StatusKinds == {"none", "primary", "secondary", "unhealthy", "startup"}

SlotKinds ==
    {s \in [known : BOOLEAN, wantsVote : BOOLEAN,
            member : {"none", "voting", "nonvoting"}, status : StatusKinds] :
        /\ ~s.known => (~s.wantsVote /\ s.member = "none")
        /\ s.member = "none" => s.status = "none"
        /\ s.member = "voting" => s.status \in {"none", "primary", "secondary"}
        /\ (s.member = "nonvoting" /\ ~s.wantsVote) => s.status = "none"}

\* A member that is not the member of its slot: without a machine tag,
\* tagged with a machine that is gone, or tagged with machine 0.  One that
\* is tagged with machine 0 may have votes 0 and its priority left at 1.
OtherKinds ==
    {o \in [tag : {"none", "gone", "zero"},
            votes : {"nonvoting", "voting", "votes1", "votes0priority1"},
            status : {"none", "primary"}] :
        /\ o.votes = "votes1" => o.tag = "none"
        /\ o.votes = "votes0priority1" => (o.tag = "zero" /\ o.status = "none")
        /\ o.status = "primary" => o.tag # "none"}

AddrKinds == {"same", "new", "empty", "error"}

StatusOfKind(kind, memberId) ==
    CASE kind = "primary" -> MemberStatus(memberId, PrimaryState, TRUE)
      [] kind = "secondary" -> MemberStatus(memberId, SecondaryState, TRUE)
      [] kind = "unhealthy" -> MemberStatus(memberId, SecondaryState, FALSE)
      [] kind = "startup" -> MemberStatus(memberId, StartupState, TRUE)

VotesOfKind(kind) ==
    CASE kind = "voting" -> Nil
      [] kind = "votes1" -> Ptr(1)
      [] kind = "nonvoting" -> Ptr(0)
      [] kind = "votes0priority1" -> Ptr(0)

PriorityOfKind(kind) ==
    IF kind = "votes0priority1" THEN Ptr(1) ELSE VotesOfKind(kind)

SlotMember(i, s) ==
    Member(i + 1, CurAddr, MachineTag(i), VotesOfKind(s.member), VotesOfKind(s.member))

OtherMember(k, o) ==
    Member(MaxMachines + k, CurAddr,
           CASE o.tag = "none" -> NoTags
             [] o.tag = "gone" -> MachineTag(GoneMachine)
             [] o.tag = "zero" -> MachineTag(0),
           VotesOfKind(o.votes), PriorityOfKind(o.votes))

MachineOfKind(wantsVote, kind) ==
    CASE kind = "same" -> Machine(wantsVote, CurAddr, FALSE)
      [] kind = "new" -> Machine(wantsVote, NewAddr, FALSE)
      [] kind = "empty" -> Machine(wantsVote, "", FALSE)
      [] kind = "error" -> Machine(wantsVote, "", TRUE)

InitMachines(slots, addrKind, onlyFirst) ==
    LET known == {i \in DOMAIN slots : slots[i].known}
    IN  [i \in known |->
            MachineOfKind(slots[i].wantsVote,
                          IF onlyFirst /\ i # Min(known) THEN "same" ELSE addrKind)]

RECURSIVE SlotMembers(_, _)
SlotMembers(slots, ids) ==
    IF ids = <<>> THEN <<>>
    ELSE (IF slots[Head(ids)].member = "none" THEN <<>>
          ELSE <<SlotMember(Head(ids), slots[Head(ids)])>>)
         \o SlotMembers(slots, Tail(ids))

RECURSIVE SlotStatuses(_, _)
SlotStatuses(slots, ids) ==
    IF ids = <<>> THEN <<>>
    ELSE (IF slots[Head(ids)].status = "none" THEN <<>>
          ELSE <<StatusOfKind(slots[Head(ids)].status, Head(ids) + 1)>>)
         \o SlotStatuses(slots, Tail(ids))

InitMembers(slots, others) ==
    [k \in 1 .. Len(others) |-> OtherMember(k, others[k])]
        \o SlotMembers(slots, SortedSeq(DOMAIN slots))

InitStatuses(slots, others) ==
    SelectSeq([k \in 1 .. Len(others) |->
                  IF others[k].status = "none" THEN ZeroStatus
                  ELSE StatusOfKind(others[k].status, MaxMachines + k)],
              LAMBDA st : st # ZeroStatus)
        \o SlotStatuses(slots, SortedSeq(DOMAIN slots))

OtherSeqs == UNION {[1 .. n -> OtherKinds] : n \in 0 .. MaxOthers}

InitFrom(slots, others, addrKind, onlyFirst) ==
    /\ machines = InitMachines(slots, addrKind, onlyFirst)
    /\ members = InitMembers(slots, others)
    /\ statuses = InitStatuses(slots, others)
    /\ pc = "idle"
    /\ info = NoInfo
    /\ built = NoInfo
    /\ classified = newPeerGroupChanges
    /\ reviewed = newPeerGroupChanges
    /\ changes = newPeerGroupChanges
    /\ ret = NoReturn
    /\ prev = Finished(NoReturn, <<>>)
    /\ ticks = 0
    /\ usedIds = {members[i].Id : i \in 1 .. Len(members)}
    /\ ServerInit
    /\ HAInit

\* Either up to MaxMachines machines and a replica set that holds only their
\* members, each machine selecting the address its member has; or the
\* machines 0 and 1, up to MaxOthers other members and any address selection;
\* or an empty member list with a status left over for member id 1.
SmallIds == {0, 1}

InitNoMembers(slots, status) ==
    /\ machines = InitMachines(slots, "same", FALSE)
    /\ members = <<>>
    /\ statuses = <<StatusOfKind(status, 1)>>
    /\ pc = "idle"
    /\ info = NoInfo
    /\ built = NoInfo
    /\ classified = newPeerGroupChanges
    /\ reviewed = newPeerGroupChanges
    /\ changes = newPeerGroupChanges
    /\ ret = NoReturn
    /\ prev = Finished(NoReturn, <<>>)
    /\ ticks = 0
    /\ usedIds = {}
    /\ ServerInit
    /\ HAInit

Init ==
    \/ \E slots \in [MachineIds -> SlotKinds] :
          InitFrom(slots, <<>>, "same", FALSE)
    \/ \E slots \in [SmallIds -> SlotKinds], others \in OtherSeqs,
          addrKind \in AddrKinds, onlyFirst \in BOOLEAN :
          InitFrom(slots, others, addrKind, onlyFirst)
    \/ \E slots \in [SmallIds -> {s \in SlotKinds : s.member = "none"}],
          status \in {"primary", "secondary"} :
          InitNoMembers(slots, status)

----------------------------------------------------------------------------
\* The tick.

\* newPeerGroupInfo without the check for an empty member list.
NewPeerGroupInfo_NoEmptyCheck ==
    /\ pc = "idle"
    /\ ticks < MaxTicks
    /\ pc' = "info"
    /\ info' = newPeerGroupInfo(machines, statuses, members)
    /\ ret' = NoReturn
    /\ built' = info'
    /\ classified' = newPeerGroupChanges
    /\ reviewed' = newPeerGroupChanges
    /\ changes' = newPeerGroupChanges
    /\ UNCHANGED <<world, prev, ticks, usedIds, server, ha>>

\* The worker calls newPeerGroupInfo with the machines it tracks and the
\* replica set's members and statuses (desired.go:54-103).
NewPeerGroupInfo ==
    /\ pc = "idle"
    /\ ticks < MaxTicks
    /\ IF Len(members) = 0
       THEN /\ pc' = "done"
            /\ info' = NoInfo
            /\ ret' = Return(Nil, Nil, Err(ErrEmptyMemberSet, 0))
       ELSE /\ pc' = "info"
            /\ info' = newPeerGroupInfo(machines, statuses, members)
            /\ ret' = NoReturn
    /\ built' = info'
    /\ classified' = newPeerGroupChanges
    /\ reviewed' = newPeerGroupChanges
    /\ changes' = newPeerGroupChanges
    /\ UNCHANGED <<world, prev, ticks, usedIds, server, ha>>

\* The orders in which the keys of a Go map can be iterated.
MapOrders(S) == {o \in [1 .. Cardinality(S) -> S] : Range(o) = S}

\* desiredPeerGroup classifying the machines in the order the machines map
\* is iterated in, without sorting the machine ids.
DesiredPeerGroup_Unsorted ==
    /\ pc = "info"
    /\ pc' = "done"
    /\ IF votingExtras(info.extra) # {}
       THEN /\ ret' = Return(Nil, Nil,
                        Err(ErrExtraVotingMember,
                            info.extra[Min(votingExtras(info.extra))].Id))
            /\ UNCHANGED <<info, classified, reviewed, changes>>
       ELSE IF failingMachines(info) # {}
       THEN /\ \E id \in failingMachines(info) :
                  ret' = Return(Nil, Nil, Err(ErrSelectMongoAddress, id))
            /\ UNCHANGED <<info, classified, reviewed, changes>>
       ELSE \E order \in MapOrders(DOMAIN info.machines) :
            LET c == classifyAll([afterAddresses(info) EXCEPT
                                     !.members = initNewReplicaSet(info)],
                                 info, order)
                r == reviewPeerGroupChanges(c, info)
                cr == createNonVotingMember(r, info.maxMemberId)
                v == getMachinesVoting(cr.p)
            IN  /\ classified' = c
                /\ reviewed' = r
                /\ info' = [info EXCEPT !.maxMemberId = cr.maxId]
                /\ IF nilMemberIds(v) # {}
                   THEN /\ changes' = v
                        /\ ret' = Return(Nil, Nil, Err(PanicNilMember, 0))
                   ELSE /\ changes' = updateAddresses(adjustVotes(v))
                        /\ ret' = desiredPeerGroupReturn(changes')
    /\ UNCHANGED <<world, built, prev, ticks, usedIds, server, ha>>

\* desiredPeerGroup, desired.go:155-203
DesiredPeerGroup ==
    /\ pc = "info"
    /\ pc' = "done"
    /\ IF votingExtras(info.extra) # {}
       THEN /\ ret' = Return(Nil, Nil,
                        Err(ErrExtraVotingMember,
                            info.extra[Min(votingExtras(info.extra))].Id))
            /\ UNCHANGED <<info, classified, reviewed, changes>>
       ELSE IF failingMachines(info) # {}
       THEN /\ \E id \in failingMachines(info) :
                  ret' = Return(Nil, Nil, Err(ErrSelectMongoAddress, id))
            /\ UNCHANGED <<info, classified, reviewed, changes>>
       ELSE /\ classified' = afterClassify(info)
            /\ reviewed' = afterReview(info)
            /\ info' = [info EXCEPT !.maxMemberId = afterCreate(info).maxId]
            /\ IF nilMemberIds(afterVoting(info)) # {}
               THEN /\ changes' = afterVoting(info)
                    /\ ret' = Return(Nil, Nil, Err(PanicNilMember, 0))
               ELSE /\ changes' = finalChanges(info)
                    /\ ret' = desiredPeerGroupReturn(changes')
    /\ UNCHANGED <<world, built, prev, ticks, usedIds, server, ha>>

Next ==
    \/ NewPeerGroupInfo
    \/ DesiredPeerGroup

Spec == Init /\ [][Next]_vars

----------------------------------------------------------------------------
\* The worker around the tick, and the replica set it drives.

RECURSIVE MembersById(_, _)
\* The members of a members map as a list, in the order of their member ids.
MembersById(mm, ids) ==
    IF ids = {} THEN <<>>
    ELSE LET id == CHOOSE a \in ids : \A b \in ids : mm[a].Id <= mm[b].Id
         IN  <<mm[id]>> \o MembersById(mm, ids \ {id})

\* The worker applies a non-nil members map: it becomes the replica set's
\* member list, and the replica set reports the statuses of its members.
ApplyMembers ==
    /\ pc = "done"
    /\ ret.err = NoErr
    /\ ret.members # Nil
    /\ members' = MembersById(ret.members[1], DOMAIN ret.members[1])
    /\ statuses' = SelectSeq(statuses,
                        LAMBDA st : \E id \in DOMAIN ret.members[1] :
                                        ret.members[1][id].Id = st.Id)
    /\ usedIds' = usedIds \cup {members'[i].Id : i \in 1 .. Len(members')}
    /\ prev' = Finished(ret, members)
    /\ ticks' = ticks + 1
    /\ pc' = "idle"
    /\ UNCHANGED <<machines, info, built, classified, reviewed, changes, ret, server, ha>>

\* A tick that failed or returned a nil members map changes nothing.
KeepMembers ==
    /\ pc = "done"
    /\ (ret.err # NoErr \/ ret.members = Nil)
    /\ prev' = Finished(ret, members)
    /\ ticks' = ticks + 1
    /\ pc' = "idle"
    /\ UNCHANGED <<world, info, built, classified, reviewed, changes, ret, usedIds,
                   server, ha>>

NextTicks ==
    \/ NewPeerGroupInfo
    \/ DesiredPeerGroup
    \/ ApplyMembers
    \/ KeepMembers

\* Ticks one after the other on machines that do not change.
SpecTicks == Init /\ [][NextTicks]_vars

\* Between ticks the machine tracker may gain a controller machine, which
\* wants the vote and selects an address, and may lose one.
AddMachine(id) ==
    /\ pc = "idle"
    /\ ticks < MaxTicks
    /\ id \notin DOMAIN machines
    /\ machines' = Put(machines, id, Machine(TRUE, CurAddr, FALSE))
    /\ UNCHANGED <<members, statuses, pc, info, built, classified, reviewed,
                   changes, ret, prev, ticks, usedIds, server, ha>>

RemoveMachine(id) ==
    /\ pc = "idle"
    /\ ticks < MaxTicks
    /\ id \in DOMAIN machines
    /\ machines' = [i \in (DOMAIN machines) \ {id} |-> machines[i]]
    /\ UNCHANGED <<members, statuses, pc, info, built, classified, reviewed,
                   changes, ret, prev, ticks, usedIds, server, ha>>

\* A replica set whose primary is the voting member of machine 0; every
\* other machine id has a voting secondary and wants the vote, or has a
\* non-voting member and does not want the vote, or is not known.
RunKinds ==
    {s \in SlotKinds :
        \/ ~s.known
        \/ s.wantsVote /\ s.member = "voting" /\ s.status = "secondary"
        \/ ~s.wantsVote /\ s.member = "nonvoting"}

InitRun ==
    \E slots \in [MachineIds -> RunKinds \cup {s \in SlotKinds : s.status = "primary"}] :
        /\ slots[0].wantsVote /\ slots[0].member = "voting" /\ slots[0].status = "primary"
        /\ \A i \in MachineIds \ {0} : slots[i] \in RunKinds
        /\ InitFrom(slots, <<>>, "same", FALSE)

NextRun ==
    \/ NewPeerGroupInfo
    \/ DesiredPeerGroup
    \/ ApplyMembers
    \/ KeepMembers
    \/ \E id \in MachineIds : AddMachine(id)
    \/ \E id \in MachineIds : RemoveMachine(id)

\* Ticks between which machines come and go.
SpecRun == InitRun /\ [][NextRun]_vars

\* desiredPeerGroup is called once more, on a snapshot equal to the one the
\* first call was given.
RunAgain ==
    /\ pc = "done"
    /\ ticks = 0
    /\ built # NoInfo
    /\ pc' = "info"
    /\ info' = built
    /\ prev' = Finished(ret, members)
    /\ ticks' = 1
    /\ ret' = NoReturn
    /\ classified' = newPeerGroupChanges
    /\ reviewed' = newPeerGroupChanges
    /\ changes' = newPeerGroupChanges
    /\ UNCHANGED <<world, built, usedIds, server, ha>>

NextTwice ==
    \/ NewPeerGroupInfo
    \/ DesiredPeerGroup
    \/ RunAgain

\* Two runs of desiredPeerGroup on equal snapshots.
SpecTwice == Init /\ [][NextTwice]_vars

----------------------------------------------------------------------------
\* The API server's shutdown (apiserver/apiserver.go).  A request is "idle"
\* until its connection is accepted, then its handler is at the "select" of
\* trackRequests, at its "add", "serving" (inside the wrapped handler),
\* "done", or "rejected" with a 503.

\* Server.loop up to its select: it adds one to the wait group for the HTTP
\* server and starts the goroutine that serves the listener
\* (apiserver.go:541-558).
LoopServe ==
    /\ loopPc = "start"
    /\ wg' = wg + 1
    /\ servePc' = "serving"
    /\ loopPc' = "select"
    /\ UNCHANGED <<tomb, lis, requests, disposed, stopPc, lateRequests, tick, ha>>

\* The HTTP server accepts the connection of request r and starts the
\* goroutine that calls its handler (apiserver.go:552).
Accept(r) ==
    /\ servePc = "serving"
    /\ lis = "open"
    /\ requests[r] = "idle"
    /\ requests' = [requests EXCEPT ![r] = "select"]
    /\ lateRequests' = IF tomb # "alive" THEN lateRequests \cup {r} ELSE lateRequests
    /\ UNCHANGED <<tomb, wg, lis, loopPc, servePc, disposed, stopPc, tick, ha>>

\* TrackSelect taking the default branch whatever the tomb says.
TrackSelect_NoDyingCase(r) ==
    /\ requests[r] = "select"
    /\ requests' = [requests EXCEPT ![r] = "add"]
    /\ UNCHANGED <<tomb, wg, lis, loopPc, servePc, disposed, stopPc, lateRequests, tick, ha>>

\* The select of trackRequests: a 503 if the tomb is dying, else the
\* default branch (apiserver.go:839-846).
TrackSelect(r) ==
    /\ requests[r] = "select"
    /\ requests' = [requests EXCEPT ![r] = IF tomb # "alive" THEN "rejected" ELSE "add"]
    /\ UNCHANGED <<tomb, wg, lis, loopPc, servePc, disposed, stopPc, lateRequests, tick, ha>>

\* srv.wg.Add(1), after which the wrapped handler runs (apiserver.go:850-852).
TrackAdd(r) ==
    /\ requests[r] = "add"
    /\ wg' = wg + 1
    /\ requests' = [requests EXCEPT ![r] = "serving"]
    /\ UNCHANGED <<tomb, lis, loopPc, servePc, disposed, stopPc, lateRequests, tick, ha>>

\* The wrapped handler returns and the deferred srv.wg.Done() runs
\* (apiserver.go:851-852).
TrackDone(r) ==
    /\ requests[r] = "serving"
    /\ wg' = wg - 1
    /\ requests' = [requests EXCEPT ![r] = "done"]
    /\ UNCHANGED <<tomb, lis, loopPc, servePc, disposed, stopPc, lateRequests, tick, ha>>

\* Server.Kill, apiserver.go:485
Kill ==
    /\ tomb = "alive"
    /\ tomb' = "dying"
    /\ UNCHANGED <<wg, lis, loopPc, servePc, requests, disposed, stopPc, lateRequests, tick, ha>>

\* Server.Stop kills the tomb (apiserver.go:480) ...
StopKill ==
    /\ stopPc = "idle"
    /\ tomb' = IF tomb = "alive" THEN "dying" ELSE tomb
    /\ stopPc' = "wait"
    /\ UNCHANGED <<wg, lis, loopPc, servePc, requests, disposed, lateRequests, tick, ha>>

\* ... and returns when the tomb is dead (apiserver.go:481).
StopReturn ==
    /\ stopPc = "wait"
    /\ tomb = "dead"
    /\ stopPc' = "returned"
    /\ UNCHANGED <<tomb, wg, lis, loopPc, servePc, requests, disposed, lateRequests, tick, ha>>

\* The select of Server.loop sees the tomb dying and loop returns
\* (apiserver.go:568-571).
LoopDying ==
    /\ loopPc = "select"
    /\ tomb # "alive"
    /\ loopPc' = "close"
    /\ UNCHANGED <<tomb, wg, lis, servePc, requests, disposed, stopPc, lateRequests, tick, ha>>

\* The deferred function of loop closes the listener (apiserver.go:513) ...
LoopCloseListener ==
    /\ loopPc = "close"
    /\ lis' = "closed"
    /\ loopPc' = "wait"
    /\ UNCHANGED <<tomb, wg, servePc, requests, disposed, stopPc, lateRequests, tick, ha>>

\* ... the HTTP server's Serve returns on the closed listener and the
\* deferred srv.wg.Done() of its goroutine runs (apiserver.go:543-556) ...
ServeExit ==
    /\ servePc = "serving"
    /\ lis = "closed"
    /\ wg' = wg - 1
    /\ servePc' = "exited"
    /\ UNCHANGED <<tomb, lis, loopPc, requests, disposed, stopPc, lateRequests, tick, ha>>

\* ... srv.wg.Wait() returns when the counter is zero (apiserver.go:521) ...
LoopWait ==
    /\ loopPc = "wait"
    /\ wg = 0
    /\ loopPc' = "dispose"
    /\ UNCHANGED <<tomb, wg, lis, servePc, requests, disposed, stopPc, lateRequests, tick, ha>>

\* ... and the db loggers are disposed and the log sink is closed
\* (apiserver.go:522-523).
LoopDispose ==
    /\ loopPc = "dispose"
    /\ disposed' = TRUE
    /\ loopPc' = "returned"
    /\ UNCHANGED <<tomb, wg, lis, servePc, requests, stopPc, lateRequests, tick, ha>>

\* The goroutine that ran loop marks the tomb dead (apiserver.go:379-380).
TombDone ==
    /\ loopPc = "returned"
    /\ tomb' = "dead"
    /\ loopPc' = "exited"
    /\ UNCHANGED <<wg, lis, servePc, requests, disposed, stopPc, lateRequests, tick, ha>>

InitServer == InitFrom(EmptyMap, <<>>, "same", FALSE)

NextServer ==
    \/ LoopServe
    \/ \E r \in Requests : Accept(r)
    \/ \E r \in Requests : TrackSelect(r)
    \/ \E r \in Requests : TrackAdd(r)
    \/ \E r \in Requests : TrackDone(r)
    \/ Kill
    \/ StopKill
    \/ StopReturn
    \/ LoopDying
    \/ LoopCloseListener
    \/ ServeExit
    \/ LoopWait
    \/ LoopDispose
    \/ TombDone

\* The API server from NewServer on, its requests and its shutdown.
SpecServer == InitServer /\ [][NextServer]_vars

----------------------------------------------------------------------------
\* The highavailability facade
\* (apiserver/facades/client/highavailability/highavailability.go).

\* Machine ids are strings; "x" is one that strconv.Atoi rejects.
HAIds == {"0", "1", "x"}
Atoi == ("0" :> 0) @@ ("1" :> 1)
Itoa == (0 :> "0") @@ (1 :> "1")

\* A params.ControllersSpec: its series and whether its constraints are empty.
HASpec(series, noConstraints) ==
    [Series |-> series, NoConstraints |-> noConstraints]

HASpecs == {HASpec(series, nc) : series \in {"", "xenial"}, nc \in BOOLEAN}

\* The args.Specs a call can be given: none, one or two specs.
HASpecSeqs == {<<>>} \cup {<<a>> : a \in HASpecs} \cup {<<a, b>> : a, b \in HASpecs}

\* What authorizer.HasPermission returns: (true, nil), (false, nil),
\* (false, a not-found error) or (false, another error).
PermKinds == {"admin", "notadmin", "notfound", "error"}

ErrPerm == "permission denied"
ErrHasPermission == "HasPermission failed"
ErrOneSpec == "only one controller spec is supported"
ErrHostedModel == "unsupported with hosted models"
ErrChangeBlocked == "changes are blocked"
ErrControllerInfo == "ControllerInfo failed"
ErrNoVotingMachines == "internal error, failed to find any voting machines"
ErrMachine == "st.Machine failed"
ErrNoControllers == "internal error; failed to find any controllers"
ErrReadingController == "reading controller id"
ErrReadingConstraints == "reading constraints for controller id"
ErrControllerConfig == "retrieving controller config"
ErrNoUniqueAddress == "juju-ha-space is not set and a unique cloud-local address was not found for machines"
ErrStateEnableHA == "st.EnableHA failed"

\* The controller info and the machines that the call finds in the state:
\* cInfo.MachineIds, cInfo.VotingMachineIds, the ids st.Machine fails for,
\* and the number of internal addresses of each machine.
HAStates ==
    {[read |-> TRUE, haSpace |-> Nil, callsBefore |-> 0, MachineIds |-> ids,
      VotingMachineIds |-> SubSeq(ids, 1, Min({n, Len(ids)})),
      machineErr |-> bad, internal |-> internal] :
        ids \in {<<>>, <<"0">>, <<"0", "1">>, <<"1", "0">>, <<"x", "1">>, <<"x">>},
        n \in 0 .. 2,
        bad \in SUBSET {"0", "1"},
        internal \in [{"0", "1", "x"} -> 0 .. 2]}

\* The st.Machine calls in a list of calls.
MachineCall(id) == <<"Machine", id>>
EnableHACall == <<"EnableHA", "">>

RECURSIVE validateLoop_ManyAddressesPass(_, _, _, _)
\* validateLoop taking only a machine without any internal address for a bad
\* one (len(internal) == 0 in place of len(internal) != 1).
validateLoop_ManyAddressesPass(ids, st, calls, badIds) ==
    IF ids = <<>>
    THEN [err |-> IF Len(badIds) > 0 THEN Err(ErrNoUniqueAddress, badIds) ELSE NoErr,
          calls |-> calls]
    ELSE LET id == Head(ids)
         IN  IF id \in st.machineErr
             THEN [err |-> Err(ErrReadingController, <<id>>),
                   calls |-> Append(calls, MachineCall(id))]
             ELSE validateLoop_ManyAddressesPass(
                      Tail(ids), st, Append(calls, MachineCall(id)),
                      IF st.internal[id] = 0 THEN Append(badIds, id) ELSE badIds)

RECURSIVE validateLoop(_, _, _, _)
\* The loop of validateCurrentControllers (highavailability.go:172-181) and
\* what follows it: the error and the st.Machine calls made.
validateLoop(ids, st, calls, badIds) ==
    IF ids = <<>>
    THEN [err |-> IF Len(badIds) > 0 THEN Err(ErrNoUniqueAddress, badIds) ELSE NoErr,
          calls |-> calls]
    ELSE LET id == Head(ids)
         IN  IF id \in st.machineErr
             THEN [err |-> Err(ErrReadingController, <<id>>),
                   calls |-> Append(calls, MachineCall(id))]
             ELSE validateLoop(Tail(ids), st, Append(calls, MachineCall(id)),
                               IF st.internal[id] # 1 THEN Append(badIds, id) ELSE badIds)

\* validateCurrentControllers, highavailability.go:166
validateCurrentControllers(st, haSpace, machineIds) ==
    IF haSpace # ""
    THEN [err |-> NoErr, calls |-> <<>>]
    ELSE validateLoop(machineIds, st, <<>>, <<>>)

\* getBootstrapConstraints, highavailability.go:198: the error and the
\* st.Machine calls made; consErr is whether controller.Constraints() fails.
getBootstrapConstraints(st, machineIds, consErr) ==
    LET controllerIds == {Atoi[id] : id \in Range(machineIds) \cap DOMAIN Atoi}
        controllerId == Itoa[Min(controllerIds)]
    IN  IF controllerIds = {}
        THEN [err |-> Err(ErrNoControllers, <<>>), calls |-> <<>>]
        ELSE IF controllerId \in st.machineErr
        THEN [err |-> Err(ErrReadingController, <<controllerId>>),
              calls |-> <<MachineCall(controllerId)>>]
        ELSE [err |-> IF consErr THEN Err(ErrReadingConstraints, <<controllerId>>)
                      ELSE NoErr,
              calls |-> <<MachineCall(controllerId)>>]

\* The one result entry EnableHA returns for what enableHASingle returned
\* (highavailability.go:97-101).
HAResult(result, err) ==
    [results |-> <<[Result |-> result, Error |-> err]>>, err |-> NoErr]

\* The zero params.ControllersChanges, and the changes of st.EnableHA.
NoChanges == "no changes"
SomeChanges == "changes"

\* EnableHA without the refusal of a caller that is not a superuser
\* (highavailability.go:86-88).
EnableHA_NoPermissionCheck ==
    /\ haPc = "idle"
    /\ \E specs \in HASpecSeqs, perm \in PermKinds :
          /\ haSpecs' = specs
          /\ haPerm' = perm
          /\ IF perm = "error"
             THEN /\ haRet' = [results |-> <<>>, err |-> Err(ErrHasPermission, <<>>)]
                  /\ haPc' = "returned"
             ELSE IF Len(specs) = 0
             THEN /\ haRet' = [results |-> <<>>, err |-> NoErr]
                  /\ haPc' = "returned"
             ELSE IF Len(specs) > 1
             THEN /\ haRet' = [results |-> <<>>, err |-> Err(ErrOneSpec, <<>>)]
                  /\ haPc' = "returned"
             ELSE /\ haRet' = NoHAReturn
                  /\ haPc' = "single"
    /\ UNCHANGED <<haState, haCalls, tick, server>>

\* HighAvailabilityAPI.EnableHA up to its call of enableHASingle
\* (highavailability.go:77-96).
EnableHA ==
    /\ haPc = "idle"
    /\ \E specs \in HASpecSeqs, perm \in PermKinds :
          /\ haSpecs' = specs
          /\ haPerm' = perm
          /\ IF perm = "error"
             THEN /\ haRet' = [results |-> <<>>, err |-> Err(ErrHasPermission, <<>>)]
                  /\ haPc' = "returned"
             ELSE IF perm # "admin"
             THEN /\ haRet' = [results |-> <<>>, err |-> Err(ErrPerm, <<>>)]
                  /\ haPc' = "returned"
             ELSE IF Len(specs) = 0
             THEN /\ haRet' = [results |-> <<>>, err |-> NoErr]
                  /\ haPc' = "returned"
             ELSE IF Len(specs) > 1
             THEN /\ haRet' = [results |-> <<>>, err |-> Err(ErrOneSpec, <<>>)]
                  /\ haPc' = "returned"
             ELSE /\ haRet' = NoHAReturn
                  /\ haPc' = "single"
    /\ UNCHANGED <<haState, haCalls, tick, server>>

\* enableHASingle up to the controller info (highavailability.go:107-119).
SingleControllerInfo ==
    /\ haPc = "single"
    /\ \E isController, blocked, infoErr \in BOOLEAN, st \in HAStates :
          IF ~isController
          THEN /\ haRet' = HAResult(NoChanges, Err(ErrHostedModel, <<>>))
               /\ haPc' = "returned"
               /\ UNCHANGED haState
          ELSE IF blocked
          THEN /\ haRet' = HAResult(NoChanges, Err(ErrChangeBlocked, <<>>))
               /\ haPc' = "returned"
               /\ UNCHANGED haState
          ELSE IF infoErr
          THEN /\ haRet' = HAResult(NoChanges, Err(ErrControllerInfo, <<>>))
               /\ haPc' = "returned"
               /\ UNCHANGED haState
          ELSE /\ haState' = st
               /\ haPc' = "series"
               /\ UNCHANGED haRet
    /\ UNCHANGED <<haSpecs, haCalls, haPerm, tick, server>>

\* SingleSeries without the check of highavailability.go:126-128: a controller
\* info without voting machine ids leaves the series empty and goes on.
SingleSeries_NoVotersCheck ==
    /\ haPc = "series"
    /\ IF haSpecs[1].Series # "" \/ Len(haState.VotingMachineIds) = 0
       THEN /\ haPc' = "constraints"
            /\ UNCHANGED <<haSpecs, haCalls, haRet>>
       ELSE /\ haCalls' = Append(haCalls, MachineCall(haState.VotingMachineIds[1]))
            /\ IF haState.VotingMachineIds[1] \in haState.machineErr
               THEN /\ haRet' = HAResult(NoChanges,
                                    Err(ErrMachine, <<haState.VotingMachineIds[1]>>))
                    /\ haPc' = "returned"
                    /\ UNCHANGED haSpecs
               ELSE /\ haSpecs' = <<[haSpecs[1] EXCEPT !.Series = "template series"]>>
                    /\ haPc' = "constraints"
                    /\ UNCHANGED haRet
    /\ UNCHANGED <<haState, haPerm, tick, server>>

\* enableHASingle: the series of an empty spec.Series (highavailability.go:121-135).
SingleSeries ==
    /\ haPc = "series"
    /\ IF haSpecs[1].Series # ""
       THEN /\ haPc' = "constraints"
            /\ UNCHANGED <<haSpecs, haCalls, haRet>>
       ELSE IF Len(haState.VotingMachineIds) = 0
       THEN /\ haRet' = HAResult(NoChanges, Err(ErrNoVotingMachines, <<>>))
            /\ haPc' = "returned"
            /\ UNCHANGED <<haSpecs, haCalls>>
       ELSE /\ haCalls' = Append(haCalls, MachineCall(haState.VotingMachineIds[1]))
            /\ IF haState.VotingMachineIds[1] \in haState.machineErr
               THEN /\ haRet' = HAResult(NoChanges,
                                    Err(ErrMachine, <<haState.VotingMachineIds[1]>>))
                    /\ haPc' = "returned"
                    /\ UNCHANGED haSpecs
               ELSE /\ haSpecs' = <<[haSpecs[1] EXCEPT !.Series = "template series"]>>
                    /\ haPc' = "constraints"
                    /\ UNCHANGED haRet
    /\ UNCHANGED <<haState, haPerm, tick, server>>

\* enableHASingle: the constraints of a spec without any
\* (highavailability.go:137-145).
SingleConstraints ==
    /\ haPc = "constraints"
    /\ IF ~haSpecs[1].NoConstraints
       THEN /\ haPc' = "validate"
            /\ UNCHANGED <<haCalls, haRet>>
       ELSE \E consErr \in BOOLEAN :
              LET got == getBootstrapConstraints(haState, haState.MachineIds, consErr)
              IN  /\ haCalls' = haCalls \o got.calls
                  /\ IF got.err # NoErr
                     THEN /\ haRet' = HAResult(NoChanges, got.err)
                          /\ haPc' = "returned"
                     ELSE /\ haPc' = "validate"
                          /\ UNCHANGED haRet
    /\ UNCHANGED <<haSpecs, haState, haPerm, tick, server>>

\* enableHASingle: the controller config and validateCurrentControllers
\* (highavailability.go:147-156).
SingleValidate ==
    /\ haPc = "validate"
    /\ \E cfgErr \in BOOLEAN, haSpace \in {"", "ha"} :
          LET v == validateCurrentControllers(haState, haSpace, haState.MachineIds)
          IN  IF cfgErr
              THEN /\ haRet' = HAResult(NoChanges, Err(ErrControllerConfig, <<>>))
                   /\ haPc' = "returned"
                   /\ UNCHANGED <<haCalls, haState>>
              ELSE /\ haState' = [haState EXCEPT !.haSpace = Ptr(haSpace),
                                                  !.callsBefore = Len(haCalls)]
                   /\ haCalls' = haCalls \o v.calls
                   /\ IF v.err # NoErr
                      THEN /\ haRet' = HAResult(NoChanges, v.err)
                           /\ haPc' = "returned"
                      ELSE /\ haPc' = "enable"
                           /\ UNCHANGED haRet
    /\ UNCHANGED <<haSpecs, haPerm, tick, server>>

\* enableHASingle: the call of st.EnableHA and the return
\* (highavailability.go:158-163).
SingleEnableHA ==
    /\ haPc = "enable"
    /\ haCalls' = Append(haCalls, EnableHACall)
    /\ \E enableErr \in BOOLEAN :
          haRet' = IF enableErr
                   THEN HAResult(NoChanges, Err(ErrStateEnableHA, <<>>))
                   ELSE HAResult(SomeChanges, NoErr)
    /\ haPc' = "returned"
    /\ UNCHANGED <<haSpecs, haState, haPerm, tick, server>>

NextHA ==
    \/ EnableHA
    \/ SingleControllerInfo
    \/ SingleSeries
    \/ SingleConstraints
    \/ SingleValidate
    \/ SingleEnableHA

\* One call of HighAvailabilityAPI.EnableHA.
SpecHA == InitServer /\ [][NextHA]_vars

----------------------------------------------------------------------------
\* The properties.

\* desiredPeerGroup has returned without an error.
Succeeded == pc = "done" /\ ret.err = NoErr

\* The machine ids a voting map maps to true.
Voters(voting) == {id \in DOMAIN voting : voting[id]}

\* The recognised members of the snapshot that vote.
CurrentVoters == {id \in DOMAIN built.recognised :
                    LET v == built.recognised[id].Votes IN v = Nil \/ v[1] > 0}

\* The machines whose status in the snapshot has state Primary.
Primaries == {id \in DOMAIN built.statuses : built.statuses[id].State = PrimaryState}

\* The machines that had no recognised member and got a new one.
Created == (DOMAIN changes.members) \ (DOMAIN built.recognised)

Count(s, x) == Cardinality({i \in 1 .. Len(s) : s[i] = x})

\* The number of times id is in the five buckets of p.
InBuckets(p, id) ==
    Count(p.toKeepVoting, id) + Count(p.toAddVote, id)
        + Count(p.toKeepNonVoting, id) + Count(p.toKeepCreateNonVotingMember, id)
        + Count(p.toRemoveVote, id)

\* C1: whenever desiredPeerGroup succeeds and returns a non-nil members map,
\* the number of machines that the voting map maps to true is odd.
C1_OddVoters ==
    (Succeeded /\ ret.members # Nil) =>
        Cardinality(Voters(ret.voting[1])) % 2 = 1

C3_PromotedOnlyWhenReady ==
    Succeeded =>
        \A id \in Voters(ret.voting[1]) :
            id \notin CurrentVoters =>
                /\ id \in DOMAIN built.statuses
                /\ built.statuses[id].Healthy
                /\ built.statuses[id].State \in {PrimaryState, SecondaryState}

\* C3 witness: a machine was promoted, and another that wants the vote and
\* has an unhealthy status was not.
C3_Witness ==
    /\ Succeeded
    /\ \E id \in Voters(ret.voting[1]) : id \notin CurrentVoters
    /\ \E id \in DOMAIN machines :
          /\ machines[id].wantsVote
          /\ id \in DOMAIN built.statuses
          /\ ~built.statuses[id].Healthy
          /\ ~ret.voting[1][id]

\* The extra members of the snapshot that vote: votes absent or above 0.
VotingExtra ==
    \E i \in 1 .. Len(built.extra) :
        LET v == built.extra[i].Votes IN v = Nil \/ v[1] > 0

\* C4: if a member of the snapshot's extra list votes, desiredPeerGroup
\* fails with the extra-voting-member error and returns no members map and
\* no voting map.
C4_ExtraVotingMemberFails ==
    (pc = "done" /\ built # NoInfo /\ VotingExtra) =>
        /\ ret.err # NoErr
        /\ ret.err[1] = ErrExtraVotingMember
        /\ ret.members = Nil
        /\ ret.voting = Nil

\* C4 witness: the tick failed on a voting extra member whose votes are
\* absent, while a machine's address selection fails too.
C4_Witness ==
    /\ pc = "done"
    /\ \E i \in 1 .. Len(built.extra) : built.extra[i].Votes = Nil
    /\ \E id \in DOMAIN machines : machines[id].addrErr
    /\ ret.err # NoErr
    /\ ret.err[1] = ErrExtraVotingMember

\* C5: every key of a returned members map is a known machine and holds a
\* member whose juju-machine-id tag is that key.
C5_MembersTaggedWithKnownMachine ==
    (Succeeded /\ ret.members # Nil) =>
        \A id \in DOMAIN ret.members[1] :
            /\ id \in DOMAIN machines
            /\ jujuMachineKey \in DOMAIN ret.members[1][id].Tags
            /\ ret.members[1][id].Tags[jujuMachineKey] = id

\* C5 witness: a members map was returned for a snapshot that had an extra
\* member tagged with a machine that is not known, and a member was created.
C5_Witness ==
    /\ Succeeded
    /\ ret.members # Nil
    /\ Created # {}
    /\ \E i \in 1 .. Len(built.extra) :
          jujuMachineKey \in DOMAIN built.extra[i].Tags

\* C7: within a tick maxMemberId does not decrease, every member created has
\* an id above the id of every member of the input list, and the ids of the
\* members created are pairwise distinct.
C7_NewIdsAboveInput ==
    Succeeded =>
        /\ info.maxMemberId >= built.maxMemberId
        /\ \A id \in Created : \A i \in 1 .. Len(members) :
              changes.members[id].Id > members[i].Id
        /\ \A a, b \in Created :
              a # b => changes.members[a].Id # changes.members[b].Id

\* C7 witness: two members were created in a tick whose input list had an
\* extra member with the highest member id.
C7_Witness ==
    /\ Succeeded
    /\ Cardinality(Created) >= 2
    /\ \E i \in 1 .. Len(built.extra) :
          \A id \in DOMAIN built.recognised :
              built.extra[i].Id > built.recognised[id].Id

\* C9: after classification every known machine is in exactly one of the
\* five buckets, and after the quorum adjuster none is in more than one.
C9_BucketsDisjoint ==
    Succeeded =>
        /\ \A id \in DOMAIN machines : InBuckets(classified, id) = 1
        /\ \A id \in DOMAIN machines : InBuckets(reviewed, id) <= 1

\* C9 witness: the quorum adjuster moved a machine from toKeepVoting to
\* toRemoveVote.
C9_Witness ==
    /\ Succeeded
    /\ Len(reviewed.toKeepVoting) < Len(classified.toKeepVoting)
    /\ Len(reviewed.toRemoveVote) > Len(classified.toRemoveVote)

\* The bucket the table of the classifier gives machine id.
TableBucket(id) ==
    LET voting == id \in CurrentVoters
        wants == machines[id].wantsVote
        hasMember == id \in DOMAIN built.recognised
        ready == /\ id \in DOMAIN built.statuses
                 /\ built.statuses[id].Healthy
                 /\ built.statuses[id].State \in {PrimaryState, SecondaryState}
    IN  IF wants
        THEN (IF voting THEN "toKeepVoting"
              ELSE IF ready THEN "toAddVote"
              ELSE IF hasMember THEN "toKeepNonVoting"
              ELSE "toKeepCreateNonVotingMember")
        ELSE (IF voting THEN "toRemoveVote" ELSE "toKeepNonVoting")

\* C10: the classifier puts each known machine in the bucket of the table.
C10_ClassifierTable ==
    Succeeded =>
        \A id \in DOMAIN machines :
            /\ TableBucket(id) = "toKeepVoting" <=> id \in Range(classified.toKeepVoting)
            /\ TableBucket(id) = "toAddVote" <=> id \in Range(classified.toAddVote)
            /\ TableBucket(id) = "toKeepNonVoting"
                  <=> id \in Range(classified.toKeepNonVoting)
            /\ TableBucket(id) = "toKeepCreateNonVotingMember"
                  <=> id \in Range(classified.toKeepCreateNonVotingMember)
            /\ TableBucket(id) = "toRemoveVote" <=> id \in Range(classified.toRemoveVote)

\* C10 witness: one tick classified machines as toAddVote, as
\* toKeepCreateNonVotingMember and as toRemoveVote.
C10_Witness ==
    /\ Succeeded
    /\ classified.toAddVote # <<>>
    /\ classified.toKeepCreateNonVotingMember # <<>>
    /\ classified.toRemoveVote # <<>>

\* The recognised members of the snapshot that the tick before created.
NewSincePrev ==
    {id \in DOMAIN built.recognised : built.recognised[id].Id \notin prev.ids}

\* C6: when a tick succeeded, its members map (if any) was installed and
\* the next tick reads the same machines and statuses, with the members
\* created still not ready, the next tick returns a nil members map and the
\* same voting map.
C6_RoundTrip ==
    (/\ pc = "done"
     /\ ticks >= 1
     /\ built # NoInfo
     /\ prev.ret.err = NoErr
     /\ \A id \in NewSincePrev :
           ~(/\ id \in DOMAIN built.statuses
             /\ built.statuses[id].Healthy
             /\ built.statuses[id].State \in {PrimaryState, SecondaryState}))
    => /\ ret.err = NoErr
       /\ ret.members = Nil
       /\ ret.voting = prev.ret.voting

\* C6 witness: the second tick ran after a members map with a new member,
\* a promoted member and a changed address was installed.
C6_Witness ==
    /\ pc = "done"
    /\ ticks >= 1
    /\ prev.ret.err = NoErr
    /\ prev.ret.members # Nil
    /\ NewSincePrev # {}
    /\ \E id \in DOMAIN built.recognised :
          /\ built.recognised[id].Address = NewAddr
          /\ built.recognised[id].Id \in prev.ids

\* C8 as claimed: over a run of ticks, a member created never gets a member
\* id that the replica set held before, nor an id below one used before.
C8_NoIdReuse ==
    Succeeded =>
        \A id \in Created : \A u \in usedIds : changes.members[id].Id > u

\* C8 as amended: over a run of ticks, a member created gets a member id
\* above every member id of the member list the tick read, so that the
\* members of the replica set never share a member id; the id of a member
\* that an earlier tick dropped can be given again.
C8_NewIdsAboveLiveSet ==
    /\ \A i, j \in 1 .. Len(members) : i # j => members[i].Id # members[j].Id
    /\ Succeeded =>
          /\ \A id \in Created : \A i \in 1 .. Len(members) :
                changes.members[id].Id > members[i].Id
          /\ \A a, b \in DOMAIN changes.members :
                a # b => changes.members[a].Id # changes.members[b].Id

\* C8 witness: after a tick dropped a member, a later tick created a member
\* with a member id that the replica set had held before.
C8_Witness ==
    /\ Succeeded
    /\ ticks >= 1
    /\ \E id \in Created :
          /\ changes.members[id].Id \in usedIds
          /\ \A i \in 1 .. Len(members) : changes.members[id].Id > members[i].Id

\* The recognised members whose vote the tick changed.
VoteChanged ==
    {id \in DOMAIN built.recognised :
        changes.machineVoting[id] # (id \in CurrentVoters)}

\* The recognised members whose address the tick changed.
AddressChanged ==
    {id \in DOMAIN built.recognised :
        changes.members[id].Address # built.recognised[id].Address}

\* C11: a successful tick returns a non-nil members map whenever the extra
\* list was not empty, a vote was added or removed, a member was created for
\* a machine that had none, or the address of a member was changed.
C11_ChangeReturnsMembers ==
    (/\ Succeeded
     /\ \/ Len(built.extra) > 0
        \/ VoteChanged # {}
        \/ Created # {}
        \/ AddressChanged # {})
    => ret.members # Nil

\* Nothing differs: no extra member, every machine has a recognised member
\* whose vote the tick keeps and whose address is the one selected.
NothingDiffers ==
    /\ Len(built.extra) = 0
    /\ \A id \in DOMAIN machines :
          /\ id \in DOMAIN built.recognised
          /\ machines[id].addr = built.recognised[id].Address
    /\ VoteChanged = {}

\* C12: when nothing differs a successful tick returns a nil members map
\* and the voting map of the current members; and a members map is returned
\* only if there was an extra member or the map differs from the recognised
\* members.
C12_NoChangeReturnsNil ==
    Succeeded =>
        /\ NothingDiffers =>
              /\ ret.members = Nil
              /\ ret.voting = Ptr([id \in DOMAIN machines |-> id \in CurrentVoters])
        /\ ret.members # Nil =>
              \/ Len(built.extra) > 0
              \/ ret.members[1] # initNewReplicaSet(built)

\* C12 witness: nothing differs for a voting and a non-voting machine, and
\* the tick returned a nil members map.
C12_Witness ==
    /\ Succeeded
    /\ NothingDiffers
    /\ ret.members = Nil
    /\ \E a, b \in DOMAIN machines : ret.voting[1][a] /\ ~ret.voting[1][b]

\* C13: newPeerGroupInfo given an empty member list fails with the
\* empty-member-set error and returns no snapshot, whatever the machines and
\* the statuses; given a non-empty member list it returns a snapshot and
\* not that error.
C13_EmptyMemberSetFails ==
    pc # "idle" =>
        IF Len(members) = 0
        THEN /\ pc = "done"
             /\ built = NoInfo
             /\ ret = Return(Nil, Nil, Err(ErrEmptyMemberSet, 0))
        ELSE /\ built # NoInfo
             /\ built.machines = machines
             /\ (ret.err = NoErr \/ ret.err[1] # ErrEmptyMemberSet)

\* C13 witness: newPeerGroupInfo failed on an empty member list while there
\* were machines and statuses.
C13_Witness ==
    /\ pc = "done"
    /\ Len(members) = 0
    /\ DOMAIN machines # {}
    /\ Len(statuses) > 0
    /\ ret.err = Err(ErrEmptyMemberSet, 0)

\* The machines whose address selection fails.
SelectionFails == {id \in DOMAIN machines : machines[id].addrErr}

\* C14: when the tick comes to select addresses (no extra member votes) and
\* the selection fails for a machine, desiredPeerGroup returns the selection
\* error of a failing machine with nil members and nil voting maps, and the
\* tick has classified nothing, created no member and left maxMemberId as it
\* was.
C14_AddressErrorAbortsTick ==
    (pc = "done" /\ built # NoInfo /\ ~VotingExtra /\ SelectionFails # {}) =>
        /\ ret.members = Nil
        /\ ret.voting = Nil
        /\ ret.err # NoErr
        /\ ret.err[1] = ErrSelectMongoAddress
        /\ ret.err[2] \in SelectionFails
        /\ classified = newPeerGroupChanges
        /\ reviewed = newPeerGroupChanges
        /\ changes = newPeerGroupChanges
        /\ info = built

\* C14 witness: the tick failed on an address selection, with a machine
\* that wants the vote and has no member (a member would have been created
\* for it) and a non-voting extra member.
C14_Witness ==
    /\ pc = "done"
    /\ ret.err # NoErr
    /\ ret.err[1] = ErrSelectMongoAddress
    /\ Len(built.extra) > 0
    /\ \E id \in DOMAIN machines :
          machines[id].wantsVote /\ id \notin DOMAIN built.recognised

\* C15 as claimed: two runs of desiredPeerGroup on equal snapshots return
\* equal members maps, equal voting maps and the same error.
C15_Deterministic ==
    (pc = "done" /\ ticks = 1) => ret = prev.ret

\* C15 as amended: two runs of desiredPeerGroup on equal snapshots return
\* equal members maps and equal voting maps, and both succeed or both fail
\* with the same kind of error; the errors are equal unless address
\* selection fails for more than one machine, when the machine whose error
\* is returned depends on the order the machines map is iterated in.
C15_SameButFailingMachine ==
    (pc = "done" /\ ticks = 1) =>
        /\ ret.members = prev.ret.members
        /\ ret.voting = prev.ret.voting
        /\ (ret.err = NoErr) = (prev.ret.err = NoErr)
        /\ ret.err # prev.ret.err =>
              /\ ret.err[1] = ErrSelectMongoAddress
              /\ prev.ret.err[1] = ErrSelectMongoAddress
              /\ {ret.err[2], prev.ret.err[2]} \subseteq SelectionFails

\* C15 witness: the second run succeeded and returned a members map, after
\* the quorum adjuster dropped a machine from toAddVote and a member was
\* created.
C15_Witness ==
    /\ Succeeded
    /\ ticks = 1
    /\ ret.members # Nil
    /\ Len(reviewed.toAddVote) < Len(classified.toAddVote)
    /\ Created # {}

\* C16 as claimed: desiredPeerGroup, successful or failing, leaves every
\* field of the snapshot with the value it had before the call.
C16_SnapshotImmutable ==
    pc = "done" => info = built

\* C16 as amended: desiredPeerGroup, successful or failing, leaves machines,
\* recognised, statuses, extra, mongoPort and haSpace as they were; it
\* raises maxMemberId by one for each member it creates, and leaves it as
\* it was when it fails or creates none.
C16_OnlyMaxMemberIdChanges ==
    (pc = "done" /\ built # NoInfo) =>
        /\ info.machines = built.machines
        /\ info.recognised = built.recognised
        /\ info.statuses = built.statuses
        /\ info.extra = built.extra
        /\ info.mongoPort = built.mongoPort
        /\ info.haSpace = built.haSpace
        /\ info.maxMemberId = built.maxMemberId + Cardinality(Created)

\* C16 witness: a successful tick created two members, and the snapshot's
\* maxMemberId is no longer what newPeerGroupInfo set.
C16_Witness ==
    /\ Succeeded
    /\ Cardinality(Created) = 2
    /\ info.maxMemberId # built.maxMemberId

\* The number of places newPeerGroupInfo put member m in: the machine ids it
\* is the recognised member of, and the times it is in the extra list.
Places(m) ==
    Cardinality({id \in DOMAIN built.recognised : built.recognised[id] = m})
        + Count(built.extra, m)

\* C17: after newPeerGroupInfo every member of the input list is the
\* recognised member of exactly one machine id or is in the extra list,
\* never both and never neither.
C17_ExactlyOnePlace ==
    (pc # "idle" /\ built # NoInfo) =>
        \A i \in 1 .. Len(members) : Places(members[i]) = 1

VotingPrimaries ==
    {id \in DOMAIN machines :
        id \in Primaries /\ id \in CurrentVoters /\ machines[id].wantsVote}

\* C19: a machine whose status is Primary, whose member votes and which
\* wants the vote votes in the result of every successful tick, and the
\* quorum adjuster does not put it in toRemoveVote.
C19_VotingPrimaryKeepsVote ==
    Succeeded =>
        \A id \in VotingPrimaries :
            /\ ret.voting[1][id]
            /\ id \notin Range(reviewed.toRemoveVote)
            /\ id \in Range(reviewed.toKeepVoting)

\* C19 witness: the quorum adjuster took a machine out of toKeepVoting
\* whose first machine was a voting primary that wants the vote.
C19_Witness ==
    /\ Succeeded
    /\ Len(reviewed.toKeepVoting) < Len(classified.toKeepVoting)
    /\ classified.toKeepVoting[1] \in VotingPrimaries
    /\ ret.voting[1][classified.toKeepVoting[1]]

\* The requests whose wrapped handler is executing.
Serving == {r \in Requests : requests[r] = "serving"}

\* C20: once the deferred wg.Wait of the server loop has returned and the
\* loggers and the log sink are disposed, and once Server.Stop has
\* returned, no handler wrapped by trackRequests is executing.
C20_StopWaitsForRequests ==
    /\ disposed => Serving = {}
    /\ stopPc = "returned" => Serving = {}

\* The number of times the call has invoked st.EnableHA.
EnableHACalls == Count(haCalls, EnableHACall)

\* The call has returned one result entry whose error is of the given kind.
HAReturnedError(kind) ==
    /\ haPc = "returned"
    /\ haRet.err = NoErr
    /\ Len(haRet.results) = 1
    /\ haRet.results[1].Error # NoErr
    /\ haRet.results[1].Error[1] = kind

\* The controller info has been read, it lists no voting machine id, and the
\* spec has an empty series.
NoSeriesNoVoters ==
    /\ haState.read
    /\ haSpecs[1].Series = ""
    /\ Len(haState.VotingMachineIds) = 0

\* C21: when the spec has an empty series and the controller info lists no
\* voting machine id, enableHASingle returns the internal error 'failed to
\* find any voting machines' right after reading the controller info, and
\* st.EnableHA is never invoked (nor is any machine read).
C21_NoVotersNoEnableHA ==
    (NoSeriesNoVoters /\ haPc # "series") =>
        /\ HAReturnedError(ErrNoVotingMachines)
        /\ haRet.results[1].Result = NoChanges
        /\ EnableHACalls = 0
        /\ haCalls = <<>>

\* C21's case: the call returned with controller machines but no voting one.
C21_Witness ==
    /\ NoSeriesNoVoters
    /\ Len(haState.MachineIds) > 0
    /\ HAReturnedError(ErrNoVotingMachines)


\* The voters the adjuster projects to keep: the voting recognised members
\* less the machines the classifier put in toRemoveVote (desired.go:216-222).
KeptVoters == Cardinality(CurrentVoters) - Len(classified.toRemoveVote)

\* A successful tick in which the adjuster found no vote to add and no voter
\* kept (the branch of desired.go:235-246).
RemoveAllVoters ==
    /\ Succeeded
    /\ Len(classified.toAddVote) = 0
    /\ KeptVoters = 0

\* The buckets of p other than toRemoveVote.
OtherThanRemove(p) ==
    <<p.toKeepVoting, p.toAddVote, p.toKeepNonVoting, p.toKeepCreateNonVotingMember>>

\* The part of C22 about the buckets: with no vote to add and kept = 0 the
\* adjuster takes out of toRemoveVote exactly the machines whose status is
\* Primary, in place, and changes no other bucket.
C22_RemovesExactlyPrimaries ==
    RemoveAllVoters =>
        /\ reviewed.toRemoveVote =
              SelectSeq2(classified.toRemoveVote,
                         Range(classified.toRemoveVote) \ Primaries)
        /\ OtherThanRemove(reviewed) = OtherThanRemove(classified)

\* C22: when the projected voter count is even, toAddVote is empty and kept
\* is 0, the adjuster removes from toRemoveVote exactly the machines whose
\* status is Primary and nothing else, so that the primary is retained as
\* the sole voter and the resulting voter count is 1.
C22_PrimarySoleVoter ==
    RemoveAllVoters =>
        /\ C22_RemovesExactlyPrimaries
        /\ Voters(ret.voting[1]) \subseteq Primaries
        /\ Cardinality(Voters(ret.voting[1])) = 1

\* C22's case with one Primary among the machines leaving: it stays the
\* sole voter.
C22_OnePrimaryKept ==
    /\ RemoveAllVoters
    /\ Len(classified.toRemoveVote) > 1
    /\ Voters(ret.voting[1]) = Range(classified.toRemoveVote) \cap Primaries
    /\ Cardinality(Voters(ret.voting[1])) = 1


\* A successful tick in which the adjuster found an even number of voters
\* kept, more than 0, and no vote to add (the branch of desired.go:247-259).
RemoveOneVoter ==
    /\ Succeeded
    /\ Len(classified.toAddVote) = 0
    /\ KeptVoters > 0
    /\ KeptVoters % 2 = 0

\* The adjuster moved the machine at index i of toKeepVoting to the end of
\* toRemoveVote and left every other machine where it was, in order.
MovedToRemove(i) ==
    /\ reviewed.toRemoveVote =
          Append(classified.toRemoveVote, classified.toKeepVoting[i])
    /\ reviewed.toKeepVoting = RemoveAt(classified.toKeepVoting, i)
    /\ reviewed.toAddVote = classified.toAddVote
    /\ reviewed.toKeepNonVoting = classified.toKeepNonVoting
    /\ reviewed.toKeepCreateNonVotingMember = classified.toKeepCreateNonVotingMember

\* The indices of toKeepVoting, sorted by machine id, whose machine has no
\* Primary status.
NonPrimaryKept ==
    {i \in 1 .. Len(classified.toKeepVoting) :
        classified.toKeepVoting[i] \notin Primaries}

\* C23: when the projected voter count is even, toAddVote is empty and kept
\* is greater than 0, the adjuster moves exactly one machine, the first id
\* in sorted order of toKeepVoting whose status is not Primary, from
\* toKeepVoting to the end of toRemoveVote, keeps the order of the rest, and
\* that machine is non-voting in the result.
C23_MovesFirstNonPrimary ==
    RemoveOneVoter =>
        /\ NonPrimaryKept # {}
        /\ MovedToRemove(Min(NonPrimaryKept))
        /\ ~ret.voting[1][classified.toKeepVoting[Min(NonPrimaryKept)]]

\* C23 where some machine of toKeepVoting has no Primary status.
C23_MovesWhenSomeNonPrimary ==
    (RemoveOneVoter /\ NonPrimaryKept # {}) =>
        /\ MovedToRemove(Min(NonPrimaryKept))
        /\ ~ret.voting[1][classified.toKeepVoting[Min(NonPrimaryKept)]]

\* The example of C23: voters 0 (primary), 1 and 2 with machine 2 leaving
\* give the voting map 0: true, 1: false, 2: false.
C23_Example ==
    /\ RemoveOneVoter
    /\ CurrentVoters = {0, 1, 2}
    /\ Primaries = {0}
    /\ classified.toRemoveVote = <<2>>
    /\ ret.voting[1] = (0 :> TRUE) @@ (1 :> FALSE) @@ (2 :> FALSE)


\* A successful tick in which the adjuster found an even number of voters
\* with votes to add (the branch of desired.go:228-232).
TrimAddVote ==
    /\ Succeeded
    /\ Len(classified.toAddVote) > 0
    /\ (KeptVoters + Len(classified.toAddVote)) % 2 = 0

\* The machine the adjuster trims from toAddVote.
Trimmed == classified.toAddVote[Len(classified.toAddVote)]

\* Nothing else changed in the tick: no extra member, no member created, no
\* vote and no address of a recognised member changed.
NothingElseChanged ==
    /\ Len(built.extra) = 0
    /\ Created = {}
    /\ VoteChanged = {}
    /\ AddressChanged = {}

\* C24: when the projected voter count is even and toAddVote is non-empty,
\* the adjuster drops exactly the last element of toAddVote, the highest
\* machine id in it, and changes no other bucket; the dropped machine is
\* non-voting in the returned voting map, and if nothing else changed in the
\* tick the members map returned is nil.
C24_TrimsLastOfAddVote ==
    TrimAddVote =>
        /\ reviewed.toAddVote =
              SubSeq(classified.toAddVote, 1, Len(classified.toAddVote) - 1)
        /\ Trimmed = Max(Range(classified.toAddVote))
        /\ reviewed.toKeepVoting = classified.toKeepVoting
        /\ reviewed.toKeepNonVoting = classified.toKeepNonVoting
        /\ reviewed.toKeepCreateNonVotingMember = classified.toKeepCreateNonVotingMember
        /\ reviewed.toRemoveVote = classified.toRemoveVote
        /\ ~ret.voting[1][Trimmed]
        /\ NothingElseChanged => ret.members = Nil

\* C24 witness: two machines were ready for the vote, the higher one was
\* trimmed and the lower one promoted.
C24_Witness ==
    /\ TrimAddVote
    /\ Len(classified.toAddVote) = 2
    /\ ret.voting[1][classified.toAddVote[1]]
    /\ ~ret.voting[1][Trimmed]

\* C24's nil case: the one machine ready for the vote was trimmed, nothing
\* else changed, and the tick returned a nil members map.
C24_NilWitness ==
    /\ TrimAddVote
    /\ NothingElseChanged
    /\ ret.members = Nil


\* A successful tick in which the adjuster found an odd number of voters
\* (the early return of desired.go:223-227).
OddVoters ==
    /\ Succeeded
    /\ (KeptVoters + Len(classified.toAddVote)) % 2 = 1

\* C25: when the projected voter count, kept plus the length of toAddVote,
\* is odd, the adjuster leaves all five buckets unchanged, so every ready
\* candidate in toAddVote is promoted in that tick; with a candidate the
\* members map returned is non-nil.
C25_OddPromotesAll ==
    OddVoters =>
        /\ reviewed = classified
        /\ \A id \in Range(classified.toAddVote) : ret.voting[1][id]
        /\ Voters(ret.voting[1]) =
              (CurrentVoters \ Range(classified.toRemoveVote))
                  \cup Range(classified.toAddVote)
        /\ Len(classified.toAddVote) > 0 => ret.members # Nil

\* C25 witness: one voter and two ready candidates give three voters and a
\* non-nil members map.
C25_Witness ==
    /\ OddVoters
    /\ KeptVoters = 1
    /\ Len(classified.toAddVote) = 2
    /\ Cardinality(Voters(ret.voting[1])) = 3
    /\ ret.members # Nil


\* The address the member of machine id had before the tick: that of the
\* recognised member, or none for a member the tick created.
AddressBefore(id) ==
    IF id \in DOMAIN built.recognised THEN built.recognised[id].Address ELSE ""

\* C26: in the result of a successful tick, every member whose machine has
\* a non-empty selected address carries exactly that address, and every
\* member whose machine's selected address is empty keeps the address it
\* had before the tick (none, for a member created in the tick).
C26_AddressesUpToDate ==
    Succeeded =>
        /\ \A id \in DOMAIN changes.members :
              changes.members[id].Address =
                  IF machines[id].addr # "" THEN machines[id].addr
                  ELSE AddressBefore(id)
        /\ ret.members # Nil => ret.members[1] = changes.members

\* C26 witness: a returned members map in which the address of a member
\* was replaced by the one its machine selected.
C26_Witness ==
    /\ Succeeded
    /\ ret.members # Nil
    /\ \E id \in DOMAIN built.recognised :
          /\ machines[id].addr # ""
          /\ built.recognised[id].Address # machines[id].addr
          /\ ret.members[1][id].Address = machines[id].addr

\* C26's other case: a member whose machine selected no address kept the
\* address it had.
C26_KeptWitness ==
    /\ Succeeded
    /\ ret.members # Nil
    /\ \E id \in DOMAIN built.recognised :
          /\ machines[id].addr = ""
          /\ built.recognised[id].Address # ""
          /\ ret.members[1][id].Address = built.recognised[id].Address


\* C27: newPeerGroupInfo records a status under a machine id only when the
\* status's member id matches a member that is recognised for that machine
\* id: the key set of statuses is a subset of the key set of recognised,
\* and statuses[id].Id equals recognised[id].Id.
C27_StatusOnlyForRecognised ==
    (pc # "idle" /\ built # NoInfo) =>
        /\ DOMAIN built.statuses \subseteq DOMAIN built.recognised
        /\ \A id \in DOMAIN built.statuses \cap DOMAIN built.recognised :
              built.statuses[id].Id = built.recognised[id].Id

\* The members of the input list tagged with machine id.
TaggedWith(id) ==
    {i \in 1 .. Len(members) :
        /\ jujuMachineKey \in DOMAIN members[i].Tags
        /\ members[i].Tags[jujuMachineKey] = id}

\* C27 where every member is tagged with a machine that is known and no two
\* members carry the same tag.
C27_WithoutGoneOrDuplicateTags ==
    (/\ pc # "idle" /\ built # NoInfo
     /\ \A i \in 1 .. Len(members) :
           jujuMachineKey \in DOMAIN members[i].Tags =>
              /\ members[i].Tags[jujuMachineKey] \in DOMAIN machines
              /\ Cardinality(TaggedWith(members[i].Tags[jujuMachineKey])) = 1)
    => /\ DOMAIN built.statuses \subseteq DOMAIN built.recognised
       /\ \A id \in DOMAIN built.statuses :
             built.statuses[id].Id = built.recognised[id].Id


\* A tick has ended on a snapshot whose extra list is non-empty and holds
\* no voting member.
NonVotingExtras ==
    /\ pc = "done"
    /\ built # NoInfo
    /\ Len(built.extra) > 0
    /\ ~VotingExtra

\* The members map returned is non-nil and holds no member of the extra
\* list.
ExtrasDropped ==
    /\ ret.members # Nil
    /\ \A id \in DOMAIN ret.members[1] :
          /\ \A i \in 1 .. Len(built.extra) :
                /\ ret.members[1][id] # built.extra[i]
                /\ ret.members[1][id].Id # built.extra[i].Id
          /\ id \in DOMAIN machines

\* C28 as claimed: when the extra list is non-empty and none of its members
\* is voting, desiredPeerGroup does not fail, returns a non-nil members map,
\* and that map contains none of the extra members.
C28_ExtrasDroppedNeverFails ==
    NonVotingExtras =>
        /\ ret.err = NoErr
        /\ ExtrasDropped

\* C28 as amended: when the extra list is non-empty and none of its members
\* is voting, desiredPeerGroup fails exactly when the address selection of
\* some machine fails, with that selection error; otherwise it returns a
\* non-nil members map that contains none of the extra members, even if no
\* machine changed.
C28_ExtrasDroppedUnlessSelectionFails ==
    NonVotingExtras =>
        /\ ret.err # NoErr <=> SelectionFails # {}
        /\ ret.err # NoErr => ret.err[1] = ErrSelectMongoAddress
        /\ ret.err = NoErr => ExtrasDropped

\* C28 witness: a non-voting extra member and nothing else to change, and
\* the tick returned the recognised members without the extra one.
C28_Witness ==
    /\ NonVotingExtras
    /\ ret.err = NoErr
    /\ ExtrasDropped
    /\ ret.members[1] = initNewReplicaSet(built)


\* The machines whose member adjustVotes writes votes and priority to.
VotesWritten ==
    Range(reviewed.toAddVote) \cup Range(reviewed.toRemoveVote)
        \cup Range(reviewed.toKeepCreateNonVotingMember)

\* The machines whose member updateAddresses writes an address to.
AddressWritten ==
    {id \in DOMAIN machines :
        machines[id].addr # "" /\ machines[id].addr # AddressBefore(id)}

\* C29: initNewReplicaSet gives each machine id its own copy of that id's
\* recognised member, so the entries do not collapse onto one member; and
\* setting votes, priority or address on an entry of the proposal changes
\* neither another entry nor what the snapshot's recognised map stores.
C29_OwnCopyPerMachine ==
    Succeeded =>
        /\ DOMAIN classified.members = DOMAIN built.recognised
        /\ \A id \in DOMAIN built.recognised :
              /\ classified.members[id] = built.recognised[id]
              /\ changes.members[id].Id = built.recognised[id].Id
              /\ changes.members[id].Tags = built.recognised[id].Tags
              /\ id \notin VotesWritten =>
                    /\ changes.members[id].Votes = built.recognised[id].Votes
                    /\ changes.members[id].Priority = built.recognised[id].Priority
              /\ id \notin AddressWritten =>
                    changes.members[id].Address = built.recognised[id].Address
        /\ info.recognised = built.recognised

\* C29 witness: of two recognised members that differ, the tick rewrote the
\* votes of one and left the other and the snapshot as they were.
C29_Witness ==
    /\ Succeeded
    /\ ret.members # Nil
    /\ \E a, b \in DOMAIN built.recognised :
          /\ a # b
          /\ a \in VotesWritten
          /\ changes.members[a].Votes # built.recognised[a].Votes
          /\ changes.members[b] = built.recognised[b]
          /\ info.recognised[a] = built.recognised[a]


\* The machines that get a new member, in the order createNonVotingMember
\* comes to them: toKeepCreateNonVotingMember, then the machines of
\* toKeepNonVoting that have no member.
CreationOrder ==
    reviewed.toKeepCreateNonVotingMember \o
        SelectSeq2(reviewed.toKeepNonVoting,
                   Range(reviewed.toKeepNonVoting) \ DOMAIN built.recognised)

\* The sequence of machine ids s is in ascending order.
Ascending(s) == \A i, j \in 1 .. Len(s) : i < j => s[i] < s[j]

\* C30: a known machine that wants the vote and has neither a member nor a
\* status is classified toKeepCreateNonVotingMember and gets a new member
\* with votes 0 and priority 0; the members map returned is non-nil and the
\* machine is non-voting in the voting map.  The k members created in a tick
\* take the ids maxMemberId+1 .. maxMemberId+k, assigned in sorted
\* machine-id order to toKeepCreateNonVotingMember first and then to the
\* member-less machines of toKeepNonVoting.
C30_CreatesNonVotingMembers ==
    Succeeded =>
        /\ \A id \in DOMAIN machines :
              (/\ machines[id].wantsVote
               /\ id \notin DOMAIN built.recognised
               /\ id \notin DOMAIN built.statuses) =>
                  /\ Count(classified.toKeepCreateNonVotingMember, id) = 1
                  /\ ret.members # Nil
                  /\ id \in DOMAIN ret.members[1]
                  /\ ret.members[1][id].Votes = Ptr(0)
                  /\ ret.members[1][id].Priority = Ptr(0)
                  /\ ~ret.voting[1][id]
        /\ Range(CreationOrder) = Created
        /\ Len(CreationOrder) = Cardinality(Created)
        /\ Ascending(reviewed.toKeepCreateNonVotingMember)
        /\ Ascending(reviewed.toKeepNonVoting)
        /\ \A k \in 1 .. Len(CreationOrder) :
              changes.members[CreationOrder[k]].Id = built.maxMemberId + k

\* C30 witness: two members were created, the first for a machine that
\* wants the vote and the second for a machine of toKeepNonVoting with a
\* lower machine id.
C30_Witness ==
    /\ Succeeded
    /\ ret.members # Nil
    /\ \E a, b \in Created :
          /\ a < b
          /\ a \in Range(reviewed.toKeepNonVoting)
          /\ b \in Range(reviewed.toKeepCreateNonVotingMember)
          /\ ret.members[1][b].Id = built.maxMemberId + 1
          /\ ret.members[1][a].Id = built.maxMemberId + 2


\* C31: after adjustVotes, every machine in toAddVote has a member with
\* votes and priority both absent and is voting, every machine in
\* toRemoveVote or toKeepCreateNonVotingMember has a member with votes 0 and
\* priority 0 and is not voting, and for every id in the members map
\* voting[id] is true exactly when the member's votes is absent or greater
\* than 0.
C31_VotesFollowBuckets ==
    Succeeded =>
        /\ \A id \in Range(reviewed.toAddVote) :
              /\ changes.members[id].Votes = Nil
              /\ changes.members[id].Priority = Nil
              /\ changes.machineVoting[id]
        /\ \A id \in Range(reviewed.toRemoveVote)
                        \cup Range(reviewed.toKeepCreateNonVotingMember) :
              /\ changes.members[id].Votes = Ptr(0)
              /\ changes.members[id].Priority = Ptr(0)
              /\ ~changes.machineVoting[id]
        /\ DOMAIN changes.machineVoting = DOMAIN changes.members
        /\ \A id \in DOMAIN changes.members :
              changes.machineVoting[id] <=>
                  (\/ changes.members[id].Votes = Nil
                   \/ changes.members[id].Votes[1] > 0)
        /\ ret.voting = Ptr(changes.machineVoting)

\* C31 witness: one tick added a vote, removed a vote and created a
\* non-voting member.
C31_Witness ==
    /\ Succeeded
    /\ Len(reviewed.toAddVote) > 0
    /\ Len(reviewed.toRemoveVote) > 0
    /\ Len(reviewed.toKeepCreateNonVotingMember) > 0
    /\ \E id \in Range(reviewed.toAddVote) : ret.voting[1][id]


\* C32: a request that reaches trackRequests after the server's tomb has
\* been killed is answered with a 503; its wrapped handler is never invoked,
\* and it is never counted in the wait group, which counts the goroutine of
\* Serve and the handlers that are executing.
C32_LateRequestRejected ==
    /\ \A r \in lateRequests : requests[r] \in {"select", "rejected"}
    /\ wg = (IF servePc = "serving" THEN 1 ELSE 0) + Cardinality(Serving)

\* C32 witness: a request accepted after the kill was answered with a 503
\* while the handler of a request accepted before it is executing.
C32_Witness ==
    \E r \in lateRequests, q \in Serving :
        /\ requests[r] = "rejected"
        /\ wg = 2


\* C33: EnableHA never invokes st.EnableHA unless the caller has superuser
\* permission and exactly one spec was passed.  A caller without the
\* permission gets ErrPerm with empty results, zero specs give empty results
\* and no error, more than one spec gives the error 'only one controller
\* spec is supported', and with one spec the outcome, result or error, is
\* returned inside exactly one result entry with a nil top-level error.
C33_EnableHAGuards ==
    /\ EnableHACalls > 0 => (haPerm = "admin" /\ Len(haSpecs) = 1)
    /\ haPc = "returned" =>
          /\ haPerm \in {"notadmin", "notfound"} =>
                /\ haRet.results = <<>>
                /\ haRet.err # NoErr
                /\ haRet.err[1] = ErrPerm
          /\ (haPerm = "admin" /\ Len(haSpecs) = 0) =>
                /\ haRet.results = <<>>
                /\ haRet.err = NoErr
          /\ (haPerm = "admin" /\ Len(haSpecs) > 1) =>
                /\ haRet.results = <<>>
                /\ haRet.err # NoErr
                /\ haRet.err[1] = ErrOneSpec
          /\ (haPerm = "admin" /\ Len(haSpecs) = 1) =>
                /\ Len(haRet.results) = 1
                /\ haRet.err = NoErr
                /\ haRet.results[1].Error = NoErr <=>
                      haRet.results[1].Result = SomeChanges
                /\ haRet.results[1].Error = NoErr => EnableHACalls = 1

\* C33 witness: a superuser passed one spec, st.EnableHA was invoked once and
\* its changes came back in the one result entry.
C33_Witness ==
    /\ haPc = "returned"
    /\ haPerm = "admin"
    /\ Len(haSpecs) = 1
    /\ EnableHACalls = 1
    /\ Len(haRet.results) = 1
    /\ haRet.results[1].Result = SomeChanges
    /\ haRet.err = NoErr


\* validateCurrentControllers has just returned: the controller config was
\* read, and st.EnableHA has not been called yet.
Validated ==
    /\ haState.read
    /\ haState.haSpace # Nil
    /\ haPc \in {"enable", "returned"}
    /\ EnableHACalls = 0

\* The error validateCurrentControllers returned.
ValidateError == IF haPc = "enable" THEN NoErr ELSE haRet.results[1].Error

\* The calls validateCurrentControllers made.
ValidateCalls == SubSeq(haCalls, haState.callsBefore + 1, Len(haCalls))

\* The controller machines without a unique internal address, in the order
\* of the controller info.
BadIds ==
    SelectSeq2(haState.MachineIds,
               {id \in Range(haState.MachineIds) : haState.internal[id] # 1})

\* The positions in the controller info of the machines st.Machine fails for.
Unreadable ==
    {k \in 1 .. Len(haState.MachineIds) :
        haState.MachineIds[k] \in haState.machineErr}

\* C34 as claimed: with an HA space configured validateCurrentControllers
\* returns nil without reading any machine, and with none configured it
\* returns an error exactly when some controller machine lacks a unique
\* internal address, naming exactly those machines.
C34_ErrorIffNoUniqueAddress ==
    Validated =>
        IF haState.haSpace # Ptr("")
        THEN ValidateError = NoErr /\ ValidateCalls = <<>>
        ELSE /\ ValidateError # NoErr <=> BadIds # <<>>
             /\ ValidateError # NoErr =>
                   ValidateError = Err(ErrNoUniqueAddress, BadIds)

\* C34 as amended: with an HA space configured validateCurrentControllers
\* returns nil without reading any machine.  With none configured it reads
\* the controller machines in order; if reading one fails it returns that
\* failure, naming that machine, without reading the rest; otherwise it
\* returns an error exactly when some controller machine lacks a unique
\* internal address, naming exactly those machines.
C34_ErrorIffUnreadableOrNoUniqueAddress ==
    Validated =>
        IF haState.haSpace # Ptr("")
        THEN ValidateError = NoErr /\ ValidateCalls = <<>>
        ELSE IF Unreadable # {}
        THEN /\ ValidateError =
                   Err(ErrReadingController, <<haState.MachineIds[Min(Unreadable)]>>)
             /\ ValidateCalls =
                   [k \in 1 .. Min(Unreadable) |-> MachineCall(haState.MachineIds[k])]
        ELSE /\ ValidateError # NoErr <=> BadIds # <<>>
             /\ ValidateError # NoErr =>
                   ValidateError = Err(ErrNoUniqueAddress, BadIds)
             /\ ValidateCalls =
                   [k \in 1 .. Len(haState.MachineIds) |->
                       MachineCall(haState.MachineIds[k])]

\* C34 witness: without an HA space, of two controller machines read the
\* second has two internal addresses and is the one the error names.
C34_Witness ==
    /\ Validated
    /\ haState.haSpace = Ptr("")
    /\ haState.MachineIds = <<"0", "1">>
    /\ haState.internal["0"] = 1
    /\ haState.internal["1"] = 2
    /\ haPc = "returned"
    /\ ValidateError = Err(ErrNoUniqueAddress, <<"1">>)


\* C35: for every snapshot in which exactly one currently voting recognised
\* member has status Primary, a successful desiredPeerGroup yields a voting
\* map with an odd, non-zero number of voters, whether the members map
\* returned is nil or not.
C35_OddVotersWithOnePrimary ==
    (Succeeded /\ Cardinality(CurrentVoters \cap Primaries) = 1) =>
        /\ Cardinality(Voters(ret.voting[1])) % 2 = 1
        /\ Cardinality(Voters(ret.voting[1])) > 0

\* C35 witness: of two voters that want the vote one is the primary, and
\* the tick leaves the primary as the only voter.
C35_Witness ==
    /\ Succeeded
    /\ Cardinality(CurrentVoters) = 2
    /\ Cardinality(CurrentVoters \cap Primaries) = 1
    /\ \A id \in CurrentVoters : machines[id].wantsVote
    /\ Voters(ret.voting[1]) = CurrentVoters \cap Primaries

\* C35's nil case: three voters, one of them the primary, and nothing to
\* change.
C35_NilWitness ==
    /\ Succeeded
    /\ Cardinality(CurrentVoters \cap Primaries) = 1
    /\ ret.members = Nil
    /\ Cardinality(Voters(ret.voting[1])) = 3


\* The voters the adjuster projects: those kept plus those to add
\* (desired.go:222-223).
Projected == KeptVoters + Len(classified.toAddVote)

\* C36: the quorum adjuster changes the voter count by at most one: with at
\* most one Primary status and projected = kept + the length of toAddVote at
\* least 1, the final number of voters is projected when projected is odd
\* and projected - 1 when it is even, the largest odd number not exceeding
\* projected.
C36_LargestOddNotExceeding ==
    (Succeeded /\ Cardinality(Primaries) <= 1 /\ Projected >= 1) =>
        /\ Cardinality(Voters(ret.voting[1])) =
              IF Projected % 2 = 1 THEN Projected ELSE Projected - 1
        /\ Cardinality(Voters(ret.voting[1])) % 2 = 1

\* C36 witness: of three voters one leaves and no candidate is ready: two
\* are projected and one votes in the result.
C36_Witness ==
    /\ Succeeded
    /\ Cardinality(Primaries) <= 1
    /\ Projected = 2
    /\ Len(classified.toAddVote) = 0
    /\ Len(classified.toRemoveVote) = 1
    /\ Cardinality(Voters(ret.voting[1])) = 1


\* The machines that do not want the vote and vote in the returned map.
UnwantedVoters ==
    {id \in DOMAIN machines : ~machines[id].wantsVote /\ ret.voting[1][id]}

\* C37: a machine that does not want the vote is voting in the result of a
\* successful tick only if it is currently voting, its status is Primary, no
\* other voter is kept (kept = 0) and no candidate is ready to be added; in
\* every other case it is non-voting in the returned voting map.
C37_UnwantedVoterOnlyLastPrimary ==
    Succeeded =>
        \A id \in UnwantedVoters :
            /\ id \in CurrentVoters
            /\ id \in Primaries
            /\ KeptVoters = 0
            /\ Len(classified.toAddVote) = 0

\* C37 witness: the primary does not want the vote, the other voter does not
\* either, and the primary alone votes in the result.
C37_Witness ==
    /\ Succeeded
    /\ Cardinality(CurrentVoters) = 2
    /\ \A id \in CurrentVoters : ~machines[id].wantsVote
    /\ Cardinality(UnwantedVoters) = 1
    /\ Voters(ret.voting[1]) = UnwantedVoters


\* C38: on every successful desiredPeerGroup call the key set of the
\* returned voting map is the set of the known machine ids, each known
\* machine ending with a member, recognised or newly created, and a non-nil
\* members map has the same key set.
C38_VotingMapCoversMachines ==
    Succeeded =>
        /\ ret.voting # Nil
        /\ DOMAIN ret.voting[1] = DOMAIN built.machines
        /\ DOMAIN changes.members = DOMAIN built.machines
        /\ DOMAIN built.machines = DOMAIN built.recognised \cup Created
        /\ ret.members # Nil => DOMAIN ret.members[1] = DOMAIN built.machines

\* C38 witness: with an extra member dropped, a recognised member and a
\* member created for a machine that does not want the vote, the maps
\* returned have the known machines for keys.
C38_Witness ==
    /\ Succeeded
    /\ ret.members # Nil
    /\ Len(built.extra) > 0
    /\ DOMAIN built.recognised # {}
    /\ \E id \in Created : ~machines[id].wantsVote
    /\ DOMAIN ret.members[1] = DOMAIN built.machines


\* The members of the replica set that vote and whose machine is not known:
\* not tagged with a machine, or tagged with one the tracker does not hold.
Orphans ==
    {i \in 1 .. Len(members) :
        /\ isVotingMember(members[i])
        /\ \/ jujuMachineKey \notin DOMAIN members[i].Tags
           \/ members[i].Tags[jujuMachineKey] \notin DOMAIN machines}

\* The tick failed with the extra-voting-member error and proposed nothing.
FailedOnVotingExtra(r) ==
    /\ r.members = Nil
    /\ r.voting = Nil
    /\ r.err # NoErr
    /\ r.err[1] = ErrExtraVotingMember

\* C39: in a run of several ticks, once a machine is dropped from the known
\* machines while its member is still voting, every tick that ends fails
\* with the extra-voting-member error and proposes no change, and no step of
\* the reconciler changes the replica set's members or statuses, for as long
\* as that member stays voting: the reconciler never gets out of this state.
C39_StuckOnVotingExtra ==
    [][Orphans # {} =>
          /\ members' = members
          /\ statuses' = statuses
          /\ pc' = "done" => FailedOnVotingExtra(ret')]_vars

\* C39 witness: the first tick succeeded, a machine was dropped while its
\* member votes, and the second tick failed on that member.
C39_Witness ==
    /\ ticks = 1
    /\ prev.ret.err = NoErr
    /\ pc = "done"
    /\ Orphans # {}
    /\ FailedOnVotingExtra(ret)


\* The machines whose member adjustVotes hands to setMemberVoting.
AdjustedIds(p) ==
    Range(p.toAddVote) \cup Range(p.toRemoveVote)
        \cup Range(p.toKeepCreateNonVotingMember)

\* C40: for every snapshot built by newPeerGroupInfo, each machine id in
\* toAddVote, toRemoveVote and toKeepCreateNonVotingMember has a non-nil
\* entry in the members map at the time adjustVotes runs, so setMemberVoting
\* never receives a nil member.
C40_NoNilMemberAdjusted ==
    (pc = "done" /\ built # NoInfo) =>
        /\ ret.err # NoErr => ret.err[1] # PanicNilMember
        /\ ret.err = NoErr =>
              /\ AdjustedIds(afterVoting(built)) \subseteq
                    DOMAIN afterVoting(built).members
              /\ AdjustedIds(reviewed) = AdjustedIds(afterVoting(built))

\* C40 witness: adjustVotes set the votes of a member created in the tick
\* and took the vote of a recognised one.
C40_Witness ==
    /\ Succeeded
    /\ \E id \in Range(reviewed.toKeepCreateNonVotingMember) :
          /\ id \notin DOMAIN built.recognised
          /\ id \in DOMAIN afterVoting(built).members
    /\ \E id \in Range(reviewed.toRemoveVote) : id \in DOMAIN built.recognised


====
